---- MODULE Spec2Model ----
(***************************************************************************)
(* Model of core/transcription_parser.py (TranscriptionParser): the        *)
(* dispatcher `parse` and the six provider adapters.                       *)
(*                                                                         *)
(* JSON values are tagged records [t, v]:                                  *)
(*   null  [t |-> "null",  v |-> 0]        bool  [t |-> "bool", v |-> b]   *)
(*   int   [t |-> "int",   v |-> n]        float [t |-> "float", v |-> m]  *)
(*   str   [t |-> "str",   v |-> <<chars>>]                                *)
(*   list  [t |-> "list",  v |-> <<values>>]                               *)
(*   obj   [t |-> "obj",   v |-> << <<key, value>>, ... >>]                *)
(* A float carries its value in millionths (fixed point): 1.5 is 1500000.  *)
(* Python floats produced by float() are plain integers in millionths.     *)
(* A Python str is a sequence of one-character strings, so that join,      *)
(* startswith, endswith, len and float(str) are computed, not assumed.     *)
(***************************************************************************)
EXTENDS Integers, Sequences, FiniteSets, TLC

\* ------------------------------------------------------------------ bounds
\* longest word / token list drawn as input
MaxLen == 3
\* the log calls of one parse call at which a forwarder's emit may fail are
\* numbered 1..MaxEmit
MaxEmit == 3

\* ------------------------------------------------------------- JSON values
None == [t |-> "null", v |-> 0]
JBool(b) == [t |-> "bool", v |-> b]
JInt(n) == [t |-> "int", v |-> n]
JFloat(m) == [t |-> "float", v |-> m]
JStr(cs) == [t |-> "str", v |-> cs]
JList(xs) == [t |-> "list", v |-> xs]
JObj(kvs) == [t |-> "obj", v |-> kvs]

\* value in millionths of one unit of a float
FloatUnit == 1000000

\* ------------------------------------------------------- Python primitives
\* key in d  (d a dict)
HasKey(d, k) == \E i \in 1..Len(d.v) : d.v[i][1] = k

\* d[k] for a key that is present
Item(d, k) == d.v[CHOOSE i \in 1..Len(d.v) : d.v[i][1] = k][2]

\* d.get(k, default)
Get(d, k, default) == IF HasKey(d, k) THEN Item(d, k) ELSE default

\* bool(x): Python truthiness
Truthy(x) ==
    CASE x.t = "null" -> FALSE
      [] x.t = "bool" -> x.v
      [] x.t \in {"int", "float"} -> x.v # 0
      [] OTHER -> Len(x.v) > 0

IsDict(x) == x.t = "obj"
IsList(x) == x.t = "list"

\* what `for e in x` iterates over, or the TypeError of a non-iterable;
\* a str yields its characters, a dict its keys
Iter(x) ==
    CASE x.t = "list" -> [exc |-> "none", items |-> x.v]
      [] x.t = "str" -> [exc |-> "none", items |-> [i \in 1..Len(x.v) |-> JStr(<<x.v[i]>>)]]
      [] x.t = "obj" -> [exc |-> "none", items |-> [i \in 1..Len(x.v) |-> JStr(<<x.v[i][1]>>)]]
      [] OTHER -> [exc |-> "TypeError", items |-> <<>>]

Digits == <<"0", "1", "2", "3", "4", "5", "6", "7", "8", "9">>
IsDigit(c) == \E i \in 1..10 : Digits[i] = c
DigitVal(c) == (CHOOSE i \in 1..10 : Digits[i] = c) - 1

RECURSIVE AllDigits(_)
AllDigits(cs) == cs = <<>> \/ (IsDigit(Head(cs)) /\ AllDigits(Tail(cs)))

RECURSIVE DigitsVal(_, _)
DigitsVal(cs, acc) ==
    IF cs = <<>> THEN acc ELSE DigitsVal(Tail(cs), 10 * acc + DigitVal(Head(cs)))

\* value in millionths of the fraction digits after the point (6 digits kept)
FracVal(cs) ==
    LET d(i) == IF i <= Len(cs) THEN DigitVal(cs[i]) ELSE 0
    IN 100000 * d(1) + 10000 * d(2) + 1000 * d(3) + 100 * d(4) + 10 * d(5) + d(6)

PointAt(cs) == {i \in 1..Len(cs) : cs[i] = "."}

\* the digits before and after the point make a number, or a ValueError
ParseParts(neg, ip, fp) ==
    IF AllDigits(ip) /\ AllDigits(fp) /\ Len(ip) + Len(fp) > 0
    THEN [exc |-> "none",
          val |-> (IF neg THEN 0 - 1 ELSE 1) * (FloatUnit * DigitsVal(ip, 0) + FracVal(fp))]
    ELSE [exc |-> "ValueError", val |-> 0]

\* split the unsigned body at its point, if it has one (two are an error)
ParseAt(neg, body, pts) ==
    IF pts = {} THEN ParseParts(neg, body, <<>>)
    ELSE IF Cardinality(pts) > 1 THEN [exc |-> "ValueError", val |-> 0]
    ELSE ParseParts(neg, SubSeq(body, 1, (CHOOSE i \in pts : TRUE) - 1),
                    SubSeq(body, (CHOOSE i \in pts : TRUE) + 1, Len(body)))

ParseUnsigned(neg, body) == ParseAt(neg, body, PointAt(body))

\* float(s) for a str: [sign] digits [. digits], at least one digit; anything
\* else is a ValueError.  (Exponents, inf/nan and padding are outside the
\* inputs drawn here.)
ParseFloat(cs) ==
    IF cs # <<>> /\ Head(cs) \in {"-", "+"} THEN ParseUnsigned(Head(cs) = "-", Tail(cs))
    ELSE ParseUnsigned(FALSE, cs)

\* float(x)
PyFloat(x) ==
    CASE x.t = "int" -> [exc |-> "none", val |-> FloatUnit * x.v]
      [] x.t = "float" -> [exc |-> "none", val |-> x.v]
      [] x.t = "bool" -> [exc |-> "none", val |-> IF x.v THEN FloatUnit ELSE 0]
      [] x.t = "str" -> ParseFloat(x.v)
      [] OTHER -> [exc |-> "TypeError", val |-> 0]

RECURSIVE NatChars(_)
NatChars(n) ==
    IF n < 10 THEN <<Digits[n + 1]>> ELSE NatChars(n \div 10) \o <<Digits[(n % 10) + 1]>>

IntChars(n) == IF n < 0 THEN <<"-">> \o NatChars(0 - n) ELSE NatChars(n)

RECURSIVE FracChars(_, _)
\* the digits of f / w after the point, trailing zeros dropped, at least one
FracChars(f, w) ==
    LET d == f \div w
    IN IF f % w = 0 \/ w = 1 THEN <<Digits[d + 1]>>
       ELSE <<Digits[d + 1]>> \o FracChars(f % w, w \div 10)

\* repr of a float held in millionths: 1500000 is 1.5, 2000000 is 2.0
FloatChars(m) ==
    LET a == IF m < 0 THEN 0 - m ELSE m
    IN (IF m < 0 THEN <<"-">> ELSE <<>>) \o NatChars(a \div FloatUnit) \o <<".">>
       \o FracChars(a % FloatUnit, FloatUnit \div 10)

RECURSIVE Repr(_)
RECURSIVE ReprItems(_, _)
\* repr(x): what str() gives for the elements of a container
Repr(x) ==
    CASE x.t = "null" -> <<"N", "o", "n", "e">>
      [] x.t = "bool" -> IF x.v THEN <<"T", "r", "u", "e">> ELSE <<"F", "a", "l", "s", "e">>
      [] x.t = "int" -> IntChars(x.v)
      [] x.t = "float" -> FloatChars(x.v)
      [] x.t = "str" -> <<"'">> \o x.v \o <<"'">>
      [] x.t = "list" -> <<"[">> \o ReprItems(x.v, FALSE) \o <<"]">>
      [] OTHER -> <<"{">> \o ReprItems(x.v, TRUE) \o <<"}">>

ReprItems(xs, pairs) ==
    IF xs = <<>> THEN <<>>
    ELSE (IF pairs THEN <<"'", Head(xs)[1], "'", ":", " ">> \o Repr(Head(xs)[2])
          ELSE Repr(Head(xs)))
         \o (IF Len(xs) > 1 THEN <<",", " ">> ELSE <<>>)
         \o ReprItems(Tail(xs), pairs)

\* str(x)
PyStr(x) == IF x.t = "str" THEN x.v ELSE Repr(x)

\* len(x), or the TypeError of an object without a length
PyLen(x) ==
    IF x.t \in {"str", "list", "obj"} THEN [exc |-> "none", val |-> Len(x.v)]
    ELSE [exc |-> "TypeError", val |-> 0]

RECURSIVE Join(_, _)
\* sep.join(parts) over character sequences
Join(sep, parts) ==
    IF parts = <<>> THEN <<>>
    ELSE IF Len(parts) = 1 THEN parts[1]
    ELSE parts[1] \o sep \o Join(sep, Tail(parts))

\* s.startswith(c), s.endswith(c) for a one-character c
StartsWith(cs, c) == cs # <<>> /\ cs[1] = c
EndsWith(cs, c) == cs # <<>> /\ cs[Len(cs)] = c

IsNone(x) == x.t = "null"

\* x == "..." for a str literal with the characters cs
StrEq(x, cs) == x.t = "str" /\ x.v = cs

\* a or b
PyOr(a, b) == IF Truthy(a) THEN a ELSE b

\* the characters of the keyword `words`
WordsChars == <<"w", "o", "r", "d", "s">>

\* sub in cs, for two strs
Contains(cs, sub) ==
    \E i \in 1..(Len(cs) + 1) :
        i + Len(sub) - 1 <= Len(cs) /\ SubSeq(cs, i, i + Len(sub) - 1) = sub

\* `"words" in x`: key test on a dict, substring test on a str, membership in
\* a list, TypeError on anything else
WordsIn(x) ==
    CASE x.t = "obj" -> [exc |-> "none", val |-> HasKey(x, "words")]
      [] x.t = "str" -> [exc |-> "none", val |-> Contains(x.v, WordsChars)]
      [] x.t = "list" -> [exc |-> "none",
                          val |-> \E i \in 1..Len(x.v) :
                                      x.v[i].t = "str" /\ x.v[i].v = WordsChars]
      [] OTHER -> [exc |-> "TypeError", val |-> FALSE]

\* ------------------------------------------------------------ data entities
\* TimestampedWord(text, start_time, end_time, speaker_id=None, confidence=1.0)
TimestampedWord(text, start_time, end_time, speaker_id, confidence) ==
    [text |-> text, start_time |-> start_time, end_time |-> end_time,
     speaker_id |-> speaker_id, confidence |-> confidence]

\* ParsedTranscription(words, full_text, language_code, soniox_metadata=None)
ParsedTranscription(words, full_text, language_code, soniox_metadata) ==
    [t |-> "ParsedTranscription", words |-> words, full_text |-> full_text,
     language_code |-> language_code, soniox_metadata |-> soniox_metadata]

\* the confidence a word gets when none is passed
DefaultConfidence == FloatUnit

\* str(speaker) if speaker else None
SpeakerId(speaker) == IF Truthy(speaker) THEN JStr(PyStr(speaker)) ELSE None

\* float(ms) / 1000.0 on a float held in millionths
MsPerSecond == 1000
\* MsToSeconds without the division: milliseconds passed on as seconds
MsToSeconds_unscaled(x) == x

MsToSeconds(x) == x \div MsPerSecond

\* ------------------------------------------------------------------ logging
\* one line handed to TranscriptionParser.log: who says what about which value
LogLine(lvl, src, what, arg) == [lvl |-> lvl, src |-> src, what |-> what, arg |-> arg]

\* the words' texts, in order
RECURSIVE Texts(_)
Texts(ws) == IF ws = <<>> THEN <<>> ELSE <<Head(ws).text>> \o Texts(Tail(ws))

\* JoinWords with the empty separator
JoinWords_no_space(ws) == JStr(Join(<<>>, Texts(ws)))

\* " ".join(word.text for word in parsed_words)
JoinWords(ws) == JStr(Join(<<" ">>, Texts(ws)))

\* full_text = data.get(key, ""); if not full_text and parsed_words: join
FullText(d, key, ws) ==
    LET full_text == Get(d, key, JStr(<<>>))
    IN IF ~Truthy(full_text) /\ ws # <<>> THEN JoinWords(ws) ELSE full_text

\* what an adapter hands back: a value (a transcription or None) or an
\* exception that leaves it, and the lines it logged
Returned(value, logs) == [exc |-> "none", value |-> value, logs |-> logs]
Raised(exc, logs) == [exc |-> exc, value |-> None, logs |-> logs]

\* state of a word loop: words appended, lines logged, exception in flight
Acc0 == [words |-> <<>>, logs |-> <<>>, exc |-> "none"]

\* the first exception of float(start), float(end), "none" if neither raises
FloatsExc(s, e) == IF s.exc # "none" THEN s.exc ELSE e.exc

\* TryAppend with the word put in front of the list instead of at its end
TryAppend_prepend(acc, src, word_info, exc, word) ==
    CASE exc = "none" -> [acc EXCEPT !.words = <<word>> \o @]
      [] exc = "ValueError" ->
            [acc EXCEPT !.logs = Append(@, LogLine("warning", src, "invalid", word_info))]
      [] OTHER -> [acc EXCEPT !.exc = exc]

\* try: parsed_words.append(word)  except ValueError: log a warning;
\* any other exception leaves the loop
TryAppend(acc, src, word_info, exc, word) ==
    CASE exc = "none" -> [acc EXCEPT !.words = Append(@, word)]
      [] exc = "ValueError" ->
            [acc EXCEPT !.logs = Append(@, LogLine("warning", src, "invalid", word_info))]
      [] OTHER -> [acc EXCEPT !.exc = exc]

\* the time a word gets from float(x): divided by 1000 for millisecond sources
WordTime(f, scale) == IF scale THEN MsToSeconds(f.val) ELSE f.val

\* WordStep with an incomplete entry subscripted instead of skipped: it raises
WordStep_incomplete_raises(acc, src, word_info, text, start, end_, speaker, scale) ==
    IF ~IsNone(text) /\ ~IsNone(start) /\ ~IsNone(end_)
    THEN TryAppend(acc, src, word_info, FloatsExc(PyFloat(start), PyFloat(end_)),
                   TimestampedWord(PyStr(text), WordTime(PyFloat(start), scale),
                                   WordTime(PyFloat(end_), scale), speaker, DefaultConfidence))
    ELSE [acc EXCEPT !.exc = "KeyError"]

\* the common body of the loops of the four adapters that test `is not None`:
\* build the word or log the warning; `scale` is TRUE for millisecond sources
WordStep(acc, src, word_info, text, start, end_, speaker, scale) ==
    IF ~IsNone(text) /\ ~IsNone(start) /\ ~IsNone(end_)
    THEN TryAppend(acc, src, word_info, FloatsExc(PyFloat(start), PyFloat(end_)),
                   TimestampedWord(PyStr(text), WordTime(PyFloat(start), scale),
                                   WordTime(PyFloat(end_), scale), speaker, DefaultConfidence))
    ELSE [acc EXCEPT !.logs = Append(@, LogLine("warning", src, "incomplete", word_info))]

\* the loop has not started if its iterable cannot be iterated
NoLoop(it) == [Acc0 EXCEPT !.exc = it.exc]

\* TextOnly without the full-text-only fallback
TextOnly_no_fallback(src, full_text_only, language) ==
    Returned(None, <<LogLine("error", src, "no_words_no_text", None)>>)

\* return ParsedTranscription(words=[], full_text=full_text_only, ...) if
\* there is a text, else log the error and return None
TextOnly(src, full_text_only, language) ==
    IF Truthy(full_text_only)
    THEN Returned(ParsedTranscription(<<>>, full_text_only, language, None), <<>>)
    ELSE Returned(None, <<LogLine("error", src, "no_words_no_text", None)>>)

\* ------------------------------------------------------- ElevenLabs (web)
_parse_elevenlabs_word(acc, word_info) ==
    IF ~IsDict(word_info) THEN [acc EXCEPT !.exc = "AttributeError"]
    ELSE LET text == Get(word_info, "text", Get(word_info, "word", None))
             start == Get(word_info, "start", None)
             end_ == Get(word_info, "end", None)
             speaker == Get(word_info, "speaker_id", Get(word_info, "speaker", None))
         IN WordStep(acc, "elevenlabs", word_info, text, start, end_, SpeakerId(speaker), FALSE)

RECURSIVE _parse_elevenlabs_loop(_, _)
_parse_elevenlabs_loop(items, acc) ==
    IF items = <<>> \/ acc.exc # "none" THEN acc
    ELSE _parse_elevenlabs_loop(Tail(items), _parse_elevenlabs_word(acc, Head(items)))

_parse_elevenlabs_words(it) ==
    IF it.exc # "none" THEN NoLoop(it) ELSE _parse_elevenlabs_loop(it.items, Acc0)

_parse_elevenlabs_return(data, acc) ==
    IF acc.exc # "none" THEN Raised(acc.exc, acc.logs)
    ELSE Returned(ParsedTranscription(acc.words, FullText(data, "text", acc.words),
                                      Get(data, "language_code", Get(data, "language", None)),
                                      None),
                  acc.logs)

_parse_elevenlabs(data) ==
    _parse_elevenlabs_return(data, _parse_elevenlabs_words(Iter(Get(data, "words", JList(<<>>)))))

\* ---------------------------------------------- nested word lists (flatten)
\* if "words" in group and isinstance(group["words"], list): the list to
\* extend with, nothing if the test is false, the exception if it raises
GroupWords(g, has) ==
    IF has.exc # "none" THEN [exc |-> has.exc, items |-> <<>>]
    ELSE IF ~has.val THEN [exc |-> "none", items |-> <<>>]
    ELSE IF ~IsDict(g) THEN [exc |-> "TypeError", items |-> <<>>]
    ELSE IF IsList(Item(g, "words")) THEN [exc |-> "none", items |-> Item(g, "words").v]
    ELSE [exc |-> "none", items |-> <<>>]

\* out.extend(more), or the exception met on the way to it
Extend(out, more) == [exc |-> more.exc, items |-> out.items \o more.items]

\* for group in groups: ...: out.extend(group["words"])
RECURSIVE Flatten(_, _)
Flatten(groups, out) ==
    IF groups = <<>> \/ out.exc # "none" THEN out
    ELSE Flatten(Tail(groups), Extend(out, GroupWords(Head(groups), WordsIn(Head(groups)))))

\* the word list of Whisper / AssemblyAI: top-level "words" if it is a list,
\* else the lists nested under `nested` ("segments" / "utterances")
WordsList(data, nested) ==
    IF HasKey(data, "words") /\ IsList(Item(data, "words"))
    THEN [exc |-> "none", items |-> Item(data, "words").v]
    ELSE IF HasKey(data, nested) /\ IsList(Item(data, nested))
    THEN Flatten(Item(data, nested).v, [exc |-> "none", items |-> <<>>])
    ELSE [exc |-> "none", items |-> <<>>]

\* whisper_words_list = data["words"] names the list inside data; without it
\* the name stays on the fresh list of `whisper_words_list = []`
NamesInputList(data) == HasKey(data, "words") /\ IsList(Item(data, "words"))

\* the entries extend() appends where both tests are plain `if`s
Extended_after_top_level(data, nested) ==
    IF HasKey(data, nested) /\ IsList(Item(data, nested))
    THEN Flatten(Item(data, nested).v, [exc |-> "none", items |-> <<>>]).items
    ELSE <<>>

\* the entries the calls of extend() append to the list the name is on: the
\* nested lists are read in the elif branch only
Extended(data, nested) ==
    IF NamesInputList(data) THEN <<>>
    ELSE IF HasKey(data, nested) /\ IsList(Item(data, nested))
    THEN Flatten(Item(data, nested).v, [exc |-> "none", items |-> <<>>]).items
    ELSE <<>>

\* d[k] with more entries appended in place
ExtendItem(d, k, more) ==
    JObj([i \in DOMAIN d.v |->
            IF d.v[i][1] = k THEN <<k, JList(d.v[i][2].v \o more)>> ELSE d.v[i]])

\* data after the word list was gathered: extend() writes to data["words"]
\* when the name is on that list, to the fresh list otherwise
AfterWordsList(data, nested) ==
    IF NamesInputList(data) THEN ExtendItem(data, "words", Extended(data, nested))
    ELSE data

\* ------------------------------------------------------------------ Whisper
\* _parse_whisper_word reading a speaker, as the Deepgram loop does
_parse_whisper_word_with_speaker(acc, word_info) ==
    IF ~IsDict(word_info) THEN [acc EXCEPT !.exc = "AttributeError"]
    ELSE LET text == Get(word_info, "word", Get(word_info, "text", None))
             start == Get(word_info, "start", None)
             end_ == Get(word_info, "end", None)
         IN WordStep(acc, "whisper", word_info, text, start, end_,
                     Get(word_info, "speaker", None), FALSE)

_parse_whisper_word(acc, word_info) ==
    IF ~IsDict(word_info) THEN [acc EXCEPT !.exc = "AttributeError"]
    ELSE LET text == Get(word_info, "word", Get(word_info, "text", None))
             start == Get(word_info, "start", None)
             end_ == Get(word_info, "end", None)
         IN WordStep(acc, "whisper", word_info, text, start, end_, None, FALSE)

RECURSIVE _parse_whisper_loop(_, _)
_parse_whisper_loop(items, acc) ==
    IF items = <<>> \/ acc.exc # "none" THEN acc
    ELSE _parse_whisper_loop(Tail(items), _parse_whisper_word(acc, Head(items)))

_parse_whisper_return(data, acc) ==
    IF acc.exc # "none" THEN Raised(acc.exc, acc.logs)
    ELSE Returned(ParsedTranscription(acc.words, FullText(data, "text", acc.words),
                                      Get(data, "language", None), None),
                  acc.logs)

_parse_whisper_list(data, whisper_words_list) ==
    IF whisper_words_list.exc # "none" THEN Raised(whisper_words_list.exc, <<>>)
    ELSE IF whisper_words_list.items = <<>>
    THEN TextOnly("whisper", Get(data, "text", None), Get(data, "language", None))
    ELSE _parse_whisper_return(data, _parse_whisper_loop(whisper_words_list.items, Acc0))

_parse_whisper(data) == _parse_whisper_list(data, WordsList(data, "segments"))

\* --------------------------------------------------------------- AssemblyAI
_parse_assemblyai_word(acc, word_info) ==
    IF ~IsDict(word_info) THEN [acc EXCEPT !.exc = "AttributeError"]
    ELSE LET text == Get(word_info, "text", None)
             start_ms == Get(word_info, "start", None)
             end_ms == Get(word_info, "end", None)
             speaker == Get(word_info, "speaker", None)
         IN WordStep(acc, "assemblyai", word_info, text, start_ms, end_ms,
                     SpeakerId(speaker), TRUE)

RECURSIVE _parse_assemblyai_loop(_, _)
_parse_assemblyai_loop(items, acc) ==
    IF items = <<>> \/ acc.exc # "none" THEN acc
    ELSE _parse_assemblyai_loop(Tail(items), _parse_assemblyai_word(acc, Head(items)))

_parse_assemblyai_return(data, acc) ==
    IF acc.exc # "none" THEN Raised(acc.exc, acc.logs)
    ELSE Returned(ParsedTranscription(acc.words, FullText(data, "text", acc.words),
                                      Get(data, "language_code", None), None),
                  acc.logs)

_parse_assemblyai_list(data, assemblyai_words_list) ==
    IF assemblyai_words_list.exc # "none" THEN Raised(assemblyai_words_list.exc, <<>>)
    ELSE IF assemblyai_words_list.items = <<>>
    THEN TextOnly("assemblyai", Get(data, "text", None), Get(data, "language_code", None))
    ELSE _parse_assemblyai_return(data, _parse_assemblyai_loop(assemblyai_words_list.items, Acc0))

_parse_assemblyai(data) == _parse_assemblyai_list(data, WordsList(data, "utterances"))

\* ----------------------------------------------------------------- Deepgram
_parse_deepgram_word(acc, word_info) ==
    IF ~IsDict(word_info) THEN [acc EXCEPT !.exc = "AttributeError"]
    ELSE LET text == Get(word_info, "word", Get(word_info, "punctuated_word", None))
             start == Get(word_info, "start", None)
             end_ == Get(word_info, "end", None)
             speaker == Get(word_info, "speaker", None)
         IN WordStep(acc, "deepgram", word_info, text, start, end_, SpeakerId(speaker), FALSE)

RECURSIVE _parse_deepgram_loop(_, _)
_parse_deepgram_loop(items, acc) ==
    IF items = <<>> \/ acc.exc # "none" THEN acc
    ELSE _parse_deepgram_loop(Tail(items), _parse_deepgram_word(acc, Head(items)))

\* results.channels[0].alternatives[0] is there
PathOk(channel, alternative) == [st |-> "ok", channel |-> channel, alternative |-> alternative]
\* the structure test is false
PathBad == [st |-> "bad", channel |-> None, alternative |-> None]
\* .get on something that is no dict
PathError == [st |-> "AttributeError", channel |-> None, alternative |-> None]

\* ... and channels[0].get("alternatives") and isinstance(.., list) and len(..) > 0
DeepgramAlternatives(channel, alternatives) ==
    IF ~Truthy(alternatives) \/ ~IsList(alternatives) THEN PathBad
    ELSE PathOk(channel, alternatives.v[1])

\* ... and isinstance(channels, list) and len(channels) > 0 and channels[0].get(..)
DeepgramChannels(channels) ==
    IF ~Truthy(channels) \/ ~IsList(channels) THEN PathBad
    ELSE IF ~IsDict(channels.v[1]) THEN PathError
    ELSE DeepgramAlternatives(channels.v[1], Get(channels.v[1], "alternatives", None))

\* data.get("results") and data["results"].get("channels") and ...
DeepgramResults(results) ==
    IF ~Truthy(results) THEN PathBad
    ELSE IF ~IsDict(results) THEN PathError
    ELSE DeepgramChannels(Get(results, "channels", None))

\* the structure test of _parse_deepgram
DeepgramPath(data) == DeepgramResults(Get(data, "results", None))

_parse_deepgram_return(alternative, language, acc) ==
    IF acc.exc # "none" THEN Raised(acc.exc, acc.logs)
    ELSE Returned(ParsedTranscription(acc.words,
                                      FullText(alternative, "transcript", acc.words),
                                      language, None),
                  acc.logs)

\* from `if "words" not in alternative or not isinstance(...)` to the end
_parse_deepgram_alternative(alternative, language, has) ==
    IF has.exc # "none" THEN Raised(has.exc, <<>>)
    ELSE IF has.val /\ ~IsDict(alternative) THEN Raised("TypeError", <<>>)
    ELSE IF ~has.val /\ ~IsDict(alternative) THEN Raised("AttributeError", <<>>)
    ELSE IF ~has.val \/ ~IsList(Item(alternative, "words"))
    THEN TextOnly("deepgram", Get(alternative, "transcript", JStr(<<>>)), language)
    ELSE _parse_deepgram_return(alternative, language,
                                _parse_deepgram_loop(Item(alternative, "words").v, Acc0))

_parse_deepgram_path(path) ==
    IF path.st = "bad"
    THEN Returned(None, <<LogLine("error", "deepgram", "bad_structure", None)>>)
    ELSE IF path.st # "ok" THEN Raised(path.st, <<>>)
    ELSE _parse_deepgram_alternative(path.alternative,
                                     Get(path.channel, "detected_language", None),
                                     WordsIn(path.alternative))

_parse_deepgram(data) == _parse_deepgram_path(DeepgramPath(data))

\* ------------------------------------------------------------------- Soniox
\* the characters of the status value `completed`
CompletedChars == <<"c", "o", "m", "p", "l", "e", "t", "e", "d">>

\* float(confidence) if confidence is not None else 1.0
Confidence(confidence) ==
    IF IsNone(confidence) THEN [exc |-> "none", val |-> DefaultConfidence]
    ELSE PyFloat(confidence)

\* the try block of the token loop, given float(start_ms), float(end_ms) and
\* the confidence
_parse_soniox_try(acc, token, text, s, e, speaker, c) ==
    TryAppend(acc, "soniox", token,
              IF FloatsExc(s, e) # "none" THEN FloatsExc(s, e) ELSE c.exc,
              TimestampedWord(PyStr(text), MsToSeconds(s.val), MsToSeconds(e.val),
                              SpeakerId(speaker), c.val))

\* _parse_soniox_fields testing `not is_final` without the key test: a token
\* without the key (default False) is dropped too
_parse_soniox_fields_default_skips(acc, token, text, start_ms, end_ms, speaker, confidence, is_final) ==
    IF ~Truthy(is_final) THEN acc
    ELSE IF Truthy(text) /\ ~IsNone(start_ms) /\ ~IsNone(end_ms)
    THEN _parse_soniox_try(acc, token, text, PyFloat(start_ms), PyFloat(end_ms), speaker,
                           Confidence(confidence))
    ELSE acc

_parse_soniox_fields(acc, token, text, start_ms, end_ms, speaker, confidence, is_final) ==
    IF HasKey(token, "is_final") /\ ~Truthy(is_final) THEN acc
    ELSE IF Truthy(text) /\ ~IsNone(start_ms) /\ ~IsNone(end_ms)
    THEN _parse_soniox_try(acc, token, text, PyFloat(start_ms), PyFloat(end_ms), speaker,
                           Confidence(confidence))
    ELSE acc

_parse_soniox_token(acc, token) ==
    IF ~IsDict(token) THEN [acc EXCEPT !.exc = "AttributeError"]
    ELSE _parse_soniox_fields(acc, token, Get(token, "text", JStr(<<>>)),
                              Get(token, "start_ms", None), Get(token, "end_ms", None),
                              Get(token, "speaker", None), Get(token, "confidence", None),
                              Get(token, "is_final", JBool(FALSE)))

RECURSIVE _parse_soniox_loop(_, _)
_parse_soniox_loop(items, acc) ==
    IF items = <<>> \/ acc.exc # "none" THEN acc
    ELSE _parse_soniox_loop(Tail(items), _parse_soniox_token(acc, Head(items)))

_parse_soniox_words(it) ==
    IF it.exc # "none" THEN NoLoop(it) ELSE _parse_soniox_loop(it.items, Acc0)

\* language of the first token that has a "language" key
RECURSIVE FirstLanguage(_)
FirstLanguage(tokens) ==
    IF tokens = <<>> THEN None
    ELSE IF HasKey(Head(tokens), "language") THEN Item(Head(tokens), "language")
    ELSE FirstLanguage(Tail(tokens))

\* list(data.keys())
Keys(d) == JList([i \in 1..Len(d.v) |-> JStr(<<d.v[i][1]>>)])

\* except (KeyError, IndexError, TypeError): log the error, return None
CaughtInAdapter(src, logs) ==
    Returned(None, Append(logs, LogLine("error", src, "exception", None)))

_parse_soniox_return(data, tokens, acc) ==
    IF acc.exc = "TypeError" THEN CaughtInAdapter("soniox", acc.logs)
    ELSE IF acc.exc # "none" THEN Raised(acc.exc, acc.logs)
    ELSE Returned(ParsedTranscription(acc.words, FullText(data, "text", acc.words),
                                      FirstLanguage(tokens.v),
                                      Get(data, "soniox_metadata", None)),
                  Append(acc.logs, LogLine("info", "soniox", "done", JInt(Len(acc.words)))))

\* _parse_soniox_empty as it was before the completed-job fix: always None
_parse_soniox_empty_none(data, nokeys) == Returned(None, <<nokeys>>)

\* if not tokens: ... return the empty transcription of a completed job, or None
_parse_soniox_empty(data, nokeys) ==
    IF StrEq(Get(data, "status", None), CompletedChars)
    THEN Returned(ParsedTranscription(<<>>, JStr(<<>>), None, None),
                  <<nokeys, LogLine("info", "soniox", "empty_completed", None)>>)
    ELSE Returned(None, <<nokeys>>)

_parse_soniox_tokens(data, tokens) ==
    IF ~Truthy(tokens)
    THEN _parse_soniox_empty(data, LogLine("warning", "soniox", "no_tokens", Keys(data)))
    ELSE _parse_soniox_return(data, tokens, _parse_soniox_words(Iter(tokens)))

_parse_soniox(data) == _parse_soniox_tokens(data, Get(data, "tokens", JList(<<>>)))

\* ------------------------------------------------------- ElevenLabs (API)
_parse_elevenlabs_api_fields(acc, word_info, text, start_time, end_time, speaker_id) ==
    IF Truthy(text) /\ ~IsNone(start_time) /\ ~IsNone(end_time)
    THEN TryAppend(acc, "elevenlabs_api", word_info,
                   FloatsExc(PyFloat(start_time), PyFloat(end_time)),
                   TimestampedWord(PyStr(text), PyFloat(start_time).val, PyFloat(end_time).val,
                                   SpeakerId(speaker_id), DefaultConfidence))
    ELSE acc

_parse_elevenlabs_api_word(acc, word_info) ==
    IF ~IsDict(word_info) THEN [acc EXCEPT !.exc = "AttributeError"]
    ELSE _parse_elevenlabs_api_fields(acc, word_info,
            PyOr(Get(word_info, "text", None), Get(word_info, "word", JStr(<<>>))),
            Get(word_info, "start", None), Get(word_info, "end", None),
            PyOr(Get(word_info, "speaker_id", None), Get(word_info, "speaker", None)))

RECURSIVE _parse_elevenlabs_api_loop(_, _)
_parse_elevenlabs_api_loop(items, acc) ==
    IF items = <<>> \/ acc.exc # "none" THEN acc
    ELSE _parse_elevenlabs_api_loop(Tail(items), _parse_elevenlabs_api_word(acc, Head(items)))

_parse_elevenlabs_api_words(it) ==
    IF it.exc # "none" THEN NoLoop(it) ELSE _parse_elevenlabs_api_loop(it.items, Acc0)

\* [w for w in parsed_words if not w.text.startswith("(") or not w.text.endswith(")")]
RECURSIVE TextWords(_)
TextWords(ws) ==
    IF ws = <<>> THEN <<>>
    ELSE (IF ~StartsWith(Head(ws).text, "(") \/ ~EndsWith(Head(ws).text, ")")
          THEN <<Head(ws)>> ELSE <<>>) \o TextWords(Tail(ws))

\* full_text = data.get("text", ""); if not full_text and parsed_words:
\*     full_text = " ".join(word.text for word in text_words)
ApiFullText(full_text, parsed_words) ==
    IF ~Truthy(full_text) /\ parsed_words # <<>> THEN JoinWords(TextWords(parsed_words))
    ELSE full_text

_parse_elevenlabs_api_return(data, acc) ==
    IF acc.exc = "TypeError" THEN CaughtInAdapter("elevenlabs_api", acc.logs)
    ELSE IF acc.exc # "none" THEN Raised(acc.exc, acc.logs)
    ELSE Returned(ParsedTranscription(acc.words,
                                      ApiFullText(Get(data, "text", JStr(<<>>)), acc.words),
                                      Get(data, "language_code", None), None),
                  Append(acc.logs, LogLine("info", "elevenlabs_api", "done",
                                           JInt(Len(acc.words)))))

_parse_elevenlabs_api_list(data, words) ==
    IF ~Truthy(words)
    THEN Returned(None, <<LogLine("error", "elevenlabs_api", "no_words", None)>>)
    ELSE _parse_elevenlabs_api_return(data, _parse_elevenlabs_api_words(Iter(words)))

_parse_elevenlabs_api(data) == _parse_elevenlabs_api_list(data, Get(data, "words", JList(<<>>)))

\* --------------------------------------------------------------- dispatcher
Formats == {"elevenlabs", "elevenlabs_api", "soniox", "whisper", "deepgram", "assemblyai"}

\* the adapter `parse` selects for a recognized tag
Adapter(data, source_format) ==
    CASE source_format = "elevenlabs" -> _parse_elevenlabs(data)
      [] source_format = "elevenlabs_api" -> _parse_elevenlabs_api(data)
      [] source_format = "soniox" -> _parse_soniox(data)
      [] source_format = "whisper" -> _parse_whisper(data)
      [] source_format = "deepgram" -> _parse_deepgram(data)
      [] source_format = "assemblyai" -> _parse_assemblyai(data)

\* does the tag reach an adapter (the if / elif chain), or the final else
Recognized(source_format) == source_format \in Formats

\* ExceptException narrowed to `except ValueError`
ExceptException_value_only(exc) == exc = "ValueError"

\* `except Exception`: every exception in flight is caught
ExceptException(exc) == exc # "none"

\* what a call of parse comes to: the value returned, the exception that
\* escapes it ("none" if it returns), the lines logged and the adapters run
Outcome(result_, raised_, called_, logs_) ==
    [result |-> result_, raised |-> raised_, called |-> called_, logs |-> logs_]

\* the first line parse logs
Begin(source_format) == LogLine("info", "parse", "begin", JStr(<<source_format>>))

\* an exception in the try block of parse: caught, logged with its trace
parse_except(source_format, exc, logs_) ==
    IF ExceptException(exc)
    THEN Outcome(None, "none", <<source_format>>,
                 <<Begin(source_format)>> \o logs_
                 \o <<LogLine("error", "parse", "exception", JStr(<<exc>>)),
                      LogLine("error", "parse", "traceback", JStr(<<exc>>))>>)
    ELSE Outcome(None, exc, <<source_format>>, <<Begin(source_format)>> \o logs_)

\* if result: log the counts, n being len(result.full_text or '')
parse_success(source_format, r, n) ==
    IF n.exc # "none" THEN parse_except(source_format, n.exc, r.logs)
    ELSE Outcome(r.value, "none", <<source_format>>,
                 <<Begin(source_format)>> \o r.logs
                 \o <<LogLine("info", "parse", "success",
                              JList(<<JInt(Len(r.value.words)), JInt(n.val)>>))>>)

\* parse_result without the else of `if result`: no line when the adapter
\* returns None
parse_result_silent_failure(source_format, r) ==
    IF r.exc # "none" THEN parse_except(source_format, r.exc, r.logs)
    ELSE IF IsNone(r.value)
    THEN Outcome(None, "none", <<source_format>>, <<Begin(source_format)>> \o r.logs)
    ELSE parse_success(source_format, r, PyLen(PyOr(r.value.full_text, JStr(<<>>))))

\* parse after the adapter has come back with r
parse_result(source_format, r) ==
    IF r.exc # "none" THEN parse_except(source_format, r.exc, r.logs)
    ELSE IF IsNone(r.value)
    THEN Outcome(None, "none", <<source_format>>,
                 <<Begin(source_format)>> \o r.logs
                 \o <<LogLine("info", "parse", "failure", None)>>)
    ELSE parse_success(source_format, r, PyLen(PyOr(r.value.full_text, JStr(<<>>))))

\* ----------------------------------------------------------------- log sink
\* TranscriptionParser(signals_forwarder=None): without a forwarder log()
\* prints to the console
Console == [kind |-> "console", fails |-> {}]

\* a forwarder with log_message.emit; `fails` numbers the calls of emit that
\* raise (a signal whose receiver is gone raises RuntimeError), counted from
\* the first log call of the parse call
Forwarder(fails) == [kind |-> "forwarder", fails |-> fails]

\* the first log call, among those the call makes when every line is taken,
\* at which the sink raises; 0 if there is none
RECURSIVE FirstFailure(_, _, _)
FirstFailure(sink, n, k) ==
    IF k > n THEN 0
    ELSE IF k \in sink.fails THEN k
    ELSE FirstFailure(sink, n, k + 1)

\* the line is logged by the except block of parse
InHandler(line) == line.src = "parse" /\ line.what \in {"exception", "traceback"}

\* log() raised inside the try block of parse at call k: `except Exception`
\* catches it and logs the message (call k + 1) and the trace (call k + 2);
\* if one of those raises too, the exception leaves parse
EmitCaught(o, sink, k) ==
    IF (k + 1) \in sink.fails
    THEN Outcome(None, "RuntimeError", o.called, SubSeq(o.logs, 1, k - 1))
    ELSE IF (k + 2) \in sink.fails
    THEN Outcome(None, "RuntimeError", o.called,
                 Append(SubSeq(o.logs, 1, k - 1),
                        LogLine("error", "parse", "exception", JStr(<<"RuntimeError">>))))
    ELSE Outcome(None, "none", o.called,
                 SubSeq(o.logs, 1, k - 1)
                 \o <<LogLine("error", "parse", "exception", JStr(<<"RuntimeError">>)),
                      LogLine("error", "parse", "traceback", JStr(<<"RuntimeError">>))>>)

\* what the call comes to when log() raises at call k: the first line is
\* logged before the try block and the lines of the except block outside it,
\* so there the exception leaves parse; everywhere else it is caught
EmitFailed(o, sink, k) ==
    IF k = 1 THEN Outcome(None, "RuntimeError", <<>>, <<>>)
    ELSE IF InHandler(o.logs[k])
    THEN Outcome(None, "RuntimeError", o.called, SubSeq(o.logs, 1, k - 1))
    ELSE EmitCaught(o, sink, k)

\* the call with the sink given: o is what it comes to when every line is
\* taken, and up to the first failing log call the two runs are the same
EmitAt(o, sink, k) == IF k = 0 THEN o ELSE EmitFailed(o, sink, k)
Emit(o, sink) == EmitAt(o, sink, FirstFailure(sink, Len(o.logs), 1))

\* parse_call with an unknown tag falling through to the first adapter
parse_call_fall_through(data, source_format) ==
    parse_result(source_format,
                 IF Recognized(source_format) THEN Adapter(data, source_format)
                 ELSE _parse_elevenlabs(data))

\* one call of parse
parse_call(data, source_format) ==
    IF ~Recognized(source_format)
    THEN Outcome(None, "none", <<>>,
                 <<Begin(source_format),
                   LogLine("error", "parse", "unsupported", JStr(<<source_format>>))>>)
    ELSE parse_result(source_format, Adapter(data, source_format))

\* ------------------------------------------------------------------- inputs
\* marks a key left out of an object under construction
Absent == [t |-> "absent", v |-> 0]

\* the object with the given <<key, value>> pairs, Absent ones left out
MkObj(pairs) == JObj(SelectSeq(pairs, LAMBDA kv : kv[2].t # "absent"))

\* where each provider keeps a word's text, start and end
TextKey(source_format) == IF source_format \in {"whisper", "deepgram"} THEN "word" ELSE "text"
StartKey(source_format) == IF source_format = "soniox" THEN "start_ms" ELSE "start"
EndKey(source_format) == IF source_format = "soniox" THEN "end_ms" ELSE "end"
WordsKey(source_format) == IF source_format = "soniox" THEN "tokens" ELSE "words"
NestedKey(source_format) == IF source_format = "assemblyai" THEN "utterances" ELSE "segments"
FullTextKey(source_format) == IF source_format = "deepgram" THEN "transcript" ELSE "text"

\* a word entry in the provider's own keys
Entry(source_format, text, start, end_, is_final) ==
    MkObj(<< <<TextKey(source_format), text>>, <<StartKey(source_format), start>>,
             <<EndKey(source_format), end_>>, <<"is_final", is_final>> >>)

\* the entries drawn: well-formed ones (plain, parenthesised, end before
\* start with a numeric-string time), one per way of being malformed, and one
\* that is no object
CommonKinds(source_format) ==
    { Entry(source_format, JStr(<<"a">>), JInt(0), JFloat(500000), Absent),
      Entry(source_format, JStr(<<"(", "b", ")">>), JInt(1), JInt(2), Absent),
      Entry(source_format, JStr(<<"r">>), JStr(<<"3", ".", "5">>), JInt(2), Absent),
      Entry(source_format, JStr(<<>>), JInt(0), JInt(1), Absent),
      Entry(source_format, Absent, JInt(0), JInt(1), Absent),
      Entry(source_format, JStr(<<"m">>), None, JInt(1), Absent),
      Entry(source_format, JStr(<<"n">>), JInt(0), Absent, Absent),
      Entry(source_format, JStr(<<"s">>), JInt(0), JStr(<<"x">>), Absent),
      Entry(source_format, JStr(<<"l">>), JList(<<>>), JInt(1), Absent),
      JStr(<<"z">>) }

\* Soniox tokens can also be marked non-final
EntryKinds(source_format) ==
    IF source_format = "soniox"
    THEN CommonKinds(source_format)
         \cup {Entry(source_format, JStr(<<"f">>), JInt(4), JInt(5), JBool(FALSE))}
    ELSE CommonKinds(source_format)

\* every list of exactly n entries
Lists(source_format, n) == [1..n -> EntryKinds(source_format)]

\* the full-text values: those drawn with the short lists, those drawn with
\* every list (absent or given), and the ones that are no text
FullTexts == {Absent, JStr(<<>>), JStr(<<"T", " ", "x">>)}
ListFullTexts == {Absent, JStr(<<"T", " ", "x">>)}
OddFullTexts == {None, JInt(5)}
Statuses == {JStr(CompletedChars), JStr(<<"f", "a", "i", "l", "e", "d">>)}

\* values of the words key that are no list
NoLists == {Absent, None, JInt(5), JStr(<<>>), JStr(<<"a", "b">>), JObj(<<>>),
            JObj(<< <<"k", JInt(1)>> >>)}

\* a flat input: the word list (or what stands in its place), the full text,
\* and the Soniox status
Flat(source_format, words, full_text, status) ==
    MkObj(<< <<WordsKey(source_format), words>>, <<FullTextKey(source_format), full_text>>,
             <<"status", status>> >>)

\* the same list split over two groups (segments / utterances): the first
\* entry in the first group, the rest in the second
Groups(ws) == JList(<<MkObj(<< <<"words", JList(SubSeq(ws, 1, 1))>> >>),
                      MkObj(<< <<"words", JList(SubSeq(ws, 2, Len(ws)))>>, <<"id", JInt(1)>> >>)>>)

\* groups that are no objects, or carry no list
OddGroups == {JList(<<JInt(5)>>), JList(<<JStr(WordsChars)>>), JList(<<JList(<<JStr(WordsChars)>>)>>),
              JList(<<JStr(<<"a">>)>>), JList(<<MkObj(<< <<"words", JInt(1)>> >>)>>),
              JList(<<>>), JInt(5)}

\* a nested input: groups under "segments" / "utterances", beside what the
\* top-level "words" holds
Nested(source_format, groups, full_text, words) ==
    MkObj(<< <<NestedKey(source_format), groups>>, <<"text", full_text>>, <<"words", words>> >>)

\* a Deepgram input around one alternative
Wrap(alternative) ==
    JObj(<< <<"results", JObj(<< <<"channels",
        JList(<<JObj(<< <<"alternatives", JList(<<alternative>>)>>,
                        <<"detected_language", JStr(<<"e", "n">>)>> >>)>>)>> >>)>> >>)

\* Deepgram inputs whose path results.channels[0].alternatives[0] is missing,
\* short or of the wrong type
Channels(c) == JObj(<< <<"results", JObj(<< <<"channels", c>> >>)>> >>)
Alternatives(a) == Channels(JList(<<JObj(<< <<"alternatives", a>> >>)>>))
BrokenDeepgram ==
    {JObj(<<>>), JObj(<< <<"results", None>> >>), JObj(<< <<"results", JObj(<<>>)>> >>),
     JObj(<< <<"results", JInt(5)>> >>), JObj(<< <<"results", JList(<<JInt(1)>>)>> >>),
     JObj(<< <<"transcript", JStr(<<"T">>)>> >>),
     Channels(None), Channels(JList(<<>>)), Channels(JObj(<< <<"k", JInt(1)>> >>)),
     Channels(JList(<<JInt(5)>>)), Channels(JList(<<JObj(<<>>)>>)),
     Alternatives(JList(<<>>)), Alternatives(None), Alternatives(JStr(<<"a">>)),
     Alternatives(JObj(<< <<"transcript", JStr(<<"T">>)>> >>))}

\* alternatives that are no objects
OddAlternatives == {JInt(5), None, JStr(<<"a">>), JStr(WordsChars), JList(<<>>),
                    JList(<<JStr(WordsChars)>>)}

\* the tags drawn that parse does not know
OtherTags == {"made_up_format", "Whisper", ""}

\* ------------------------------------------- inputs with the optional fields
\* a word entry with further keys: speaker, speaker_id, confidence, is_final,
\* punctuated_word, type
FieldEntry(source_format, text, start, end_, more) ==
    MkObj(<< <<TextKey(source_format), text>>, <<StartKey(source_format), start>>,
             <<EndKey(source_format), end_>> >> \o more)

\* the characters of the type value `audio_event`
AudioEventChars == <<"a", "u", "d", "i", "o", "_", "e", "v", "e", "n", "t">>

\* entries that differ in their optional fields: none at all; speaker 0, a
\* confidence, is_final true and a punctuated form; speaker 1 and a confidence
\* above one; a speaker_id beside a null speaker and the confidence 0; a
\* non-final one; two audio events, one in parentheses and one not, the latter
\* with the empty speaker; one whose text comes as punctuated_word only
FieldKinds(source_format) ==
    { FieldEntry(source_format, JStr(<<"a">>), JInt(1500), JInt(2000), <<>>),
      FieldEntry(source_format, JStr(<<"b">>), JInt(0), JInt(500),
                 << <<"speaker", JInt(0)>>, <<"confidence", JFloat(500000)>>,
                    <<"is_final", JBool(TRUE)>>, <<"punctuated_word", JStr(<<"B", ".">>)>>,
                    <<"type", JStr(<<"w", "o", "r", "d">>)>> >>),
      FieldEntry(source_format, JStr(<<"c">>), JInt(1000), JInt(2000),
                 << <<"speaker", JInt(1)>>, <<"confidence", JFloat(1500000)>> >>),
      FieldEntry(source_format, JStr(<<"d">>), JInt(1), JInt(2),
                 << <<"speaker_id", JStr(<<"A">>)>>, <<"speaker", None>>,
                    <<"confidence", JInt(0)>> >>),
      FieldEntry(source_format, JStr(<<"f">>), JInt(4), JInt(5),
                 << <<"is_final", JBool(FALSE)>>, <<"speaker", JStr(<<"B">>)>> >>),
      FieldEntry(source_format, JStr(<<"(", "e", ")">>), JInt(2), JInt(3),
                 << <<"type", JStr(AudioEventChars)>> >>),
      FieldEntry(source_format, JStr(<<"l">>), JInt(3), JInt(4),
                 << <<"type", JStr(AudioEventChars)>>, <<"speaker", JStr(<<>>)>> >>),
      FieldEntry(source_format, Absent, JInt(5), JInt(6),
                 << <<"punctuated_word", JStr(<<"P">>)>> >>) }

\* every list of exactly n such entries
FieldLists(source_format, n) == [1..n -> FieldKinds(source_format)]

\* what the input holds under soniox_metadata
Metadatas == {Absent, JObj(<< <<"job_id", JStr(<<"j">>)>> >>)}

\* a flat input that may carry soniox_metadata; for Deepgram it is wrapped
FlatMeta(source_format, words, full_text, status, metadata) ==
    MkObj(<< <<WordsKey(source_format), words>>, <<FullTextKey(source_format), full_text>>,
             <<"status", status>>, <<"soniox_metadata", metadata>> >>)
Shaped(source_format, flat) == IF source_format = "deepgram" THEN Wrap(flat) ELSE flat

\* ============================================================ Soniox client
\* what an HTTP request comes to: requests raises a RequestException, or a
\* response arrives with a status code and a body; NotJson is a body that
\* response.json() cannot decode
NetworkError == [kind |-> "RequestException", code |-> 0, body |-> None]
NoResponse == [kind |-> "none", code |-> 0, body |-> None]
Response(code, body) == [kind |-> "response", code |-> code, body |-> body]
NotJson == [t |-> "not_json", v |-> 0]

\* response.status_code in [401, 403, 404]: no use trying again
Unrecoverable(code) == code \in {401, 403, 404}

\* the job states the loop waits on, and those that end it
FailedChars == <<"f", "a", "i", "l", "e", "d">>
ErrorChars == <<"e", "r", "r", "o", "r">>
QueuedChars == <<"q", "u", "e", "u", "e", "d">>
ProcessingChars == <<"p", "r", "o", "c", "e", "s", "s", "i", "n", "g">>
TranscribingChars == <<"t", "r", "a", "n", "s", "c", "r", "i", "b", "i", "n", "g">>

\* elapsed_time > timeout_seconds with the test left out
TimedOut_never(elapsed_time_, timeout_seconds_) == FALSE

\* if elapsed_time > timeout_seconds: return None
TimedOut(elapsed_time_, timeout_seconds_) == elapsed_time_ > timeout_seconds_

\* the poll interval grows with the time waited: 2, then 5 after 10 seconds,
\* then 10 after a minute
AtLeast(elapsed_time_, after, least, poll_interval_) ==
    IF elapsed_time_ > after /\ poll_interval_ < least THEN least ELSE poll_interval_
AdjustInterval(elapsed_time_, poll_interval_) ==
    AtLeast(elapsed_time_, 60, 10, AtLeast(elapsed_time_, 10, 5, poll_interval_))

\* what the loop does next: "sleep" (and go round again), "fetch" the
\* transcript, or "return" None
Then(next_, poll_interval_) == [next |-> next_, poll_interval |-> poll_interval_]

\* OnStatus with every code but 200 tried again
OnStatus_retry_all(r, elapsed_time_, poll_interval_) ==
    IF r.kind = "RequestException" THEN Then("sleep", poll_interval_)
    ELSE IF r.code # 200 THEN Then("sleep", poll_interval_)
    ELSE IF ~IsDict(r.body) THEN Then("return", poll_interval_)
    ELSE IF StrEq(Get(r.body, "status", None), CompletedChars) THEN Then("fetch", poll_interval_)
    ELSE IF StrEq(Get(r.body, "status", None), FailedChars)
            \/ StrEq(Get(r.body, "status", None), ErrorChars)
    THEN Then("return", poll_interval_)
    ELSE IF StrEq(Get(r.body, "status", None), QueuedChars)
            \/ StrEq(Get(r.body, "status", None), ProcessingChars)
            \/ StrEq(Get(r.body, "status", None), TranscribingChars)
    THEN Then("sleep", AdjustInterval(elapsed_time_, poll_interval_))
    ELSE Then("sleep", poll_interval_)

\* one status request handled by the loop of poll_transcription_result: a
\* body that cannot be decoded or is no object raises and ends the call in
\* the outer `except Exception`
OnStatus(r, elapsed_time_, poll_interval_) ==
    IF r.kind = "RequestException" THEN Then("sleep", poll_interval_)
    ELSE IF r.code # 200
    THEN (IF Unrecoverable(r.code) THEN Then("return", poll_interval_)
          ELSE Then("sleep", poll_interval_))
    ELSE IF ~IsDict(r.body) THEN Then("return", poll_interval_)
    ELSE IF StrEq(Get(r.body, "status", None), CompletedChars) THEN Then("fetch", poll_interval_)
    ELSE IF StrEq(Get(r.body, "status", None), FailedChars)
            \/ StrEq(Get(r.body, "status", None), ErrorChars)
    THEN Then("return", poll_interval_)
    ELSE IF StrEq(Get(r.body, "status", None), QueuedChars)
            \/ StrEq(Get(r.body, "status", None), ProcessingChars)
            \/ StrEq(Get(r.body, "status", None), TranscribingChars)
    THEN Then("sleep", AdjustInterval(elapsed_time_, poll_interval_))
    ELSE Then("sleep", poll_interval_)

\* _fetch_transcript_content: the decoded body of a 200 response, None after
\* anything else; a body that is no object, or whose tokens have no length,
\* raises in the lines that log it, and the exception is caught
_fetch_transcript_content(r) ==
    IF r.kind = "RequestException" THEN None
    ELSE IF r.code # 200 THEN None
    ELSE IF ~IsDict(r.body) THEN None
    ELSE IF HasKey(r.body, "tokens") /\ PyLen(Item(r.body, "tokens")).exc # "none" THEN None
    ELSE r.body

\* d.update(e) on a copy of d: the values of e replace those of d under the
\* same key, the other pairs of e follow
Update(d, e) ==
    JObj([i \in DOMAIN d.v |-> IF HasKey(e, d.v[i][1]) THEN <<d.v[i][1], Item(e, d.v[i][1])>>
                                 ELSE d.v[i]]
         \o SelectSeq(e.v, LAMBDA kv : ~HasKey(d, kv[1])))

\* if transcript_content: final_result = status_result.copy();
\* final_result.update(transcript_content); return it; else return None
Completed(status_result_, transcript_content) ==
    IF ~Truthy(transcript_content) THEN None
    ELSE Update(status_result_, transcript_content)

\* the id read from the response to an upload or a create request: the call
\* returns it if the code is 200 or 201 and the body holds a truthy "id",
\* None otherwise (every exception is caught)
IdOf(r) ==
    IF r.kind = "RequestException" THEN None
    ELSE IF r.code \notin {200, 201} THEN None
    ELSE IF ~IsDict(r.body) THEN None
    ELSE IF Truthy(Get(r.body, "id", None)) THEN Get(r.body, "id", None)
    ELSE None

\* d[k] = v
SetItem(d, k, v) ==
    IF HasKey(d, k)
    THEN JObj([i \in DOMAIN d.v |-> IF d.v[i][1] = k THEN <<k, v>> ELSE d.v[i]])
    ELSE JObj(Append(d.v, <<k, v>>))

\* soniox_metadata with the two ids exchanged
Metadata_swapped(file_id_, transcription_id_) ==
    JObj(<< <<"file_id", transcription_id_>>, <<"transcription_id", file_id_>>,
            <<"audio_duration", None>>, <<"audio_file_size", JInt(1)>> >>)

\* the metadata transcribe_audio_file adds to a result (the configuration
\* echoed in it is left out)
Metadata(file_id_, transcription_id_) ==
    JObj(<< <<"file_id", file_id_>>, <<"transcription_id", transcription_id_>>,
            <<"audio_duration", None>>, <<"audio_file_size", JInt(1)>> >>)

\* if result: result["soniox_metadata"] = {...}; return result; else None
WithMetadata(r, file_id_, transcription_id_) ==
    IF Truthy(r) THEN SetItem(r, "soniox_metadata", Metadata(file_id_, transcription_id_))
    ELSE None

\* ======================================================== ElevenLabs client
\* _is_worker_running with the fallback alone
_is_worker_running_fallback(has_parent_, is_running_) == TRUE

\* the is_running of the worker the forwarder belongs to; True if the
\* forwarder leads to no worker
_is_worker_running(has_parent_, is_running_) == IF has_parent_ THEN is_running_ ELSE TRUE

\* requests.post raised requests.exceptions.Timeout
TimeoutError == [kind |-> "Timeout", code |-> 0, body |-> None]

\* response.raise_for_status(); return response.json(): an error code or a
\* body that cannot be decoded raises, and the handlers return None
OnResponse(r) ==
    IF r.code >= 400 THEN None
    ELSE IF r.body = NotJson THEN None
    ELSE r.body

\* -------------------------------------------------------------------- state
VARIABLES
    data,            \* the JSON object handed to parse
    source_format,   \* the format tag handed to parse
    pc,              \* "ready" before the call, "done" after it
    result,          \* what parse returned: a ParsedTranscription or None
    raised,          \* the exception that escaped parse, "none" if it returned
    logs,            \* the lines the log sink took, in order
    called,          \* the adapters parse ran
    sink,            \* the parser's log sink (self._signals)
    \* SonioxClient.transcribe_audio_file
    clock,           \* time.time(), in seconds
    step,            \* where the transcribing thread stands
    timeout_seconds, \* the timeout given to poll_transcription_result
    start_time,      \* the clock when polling began
    elapsed_time,    \* as computed at the top of the loop
    poll_interval,   \* seconds slept between two status requests
    session,         \* self._session: the number of sessions replaced so far
    stops,           \* the calls of stop_current_task so far
    used,            \* the session the latest status request went out on
    last,            \* what the latest status request came to
    status_result,   \* the decoded body of the status response
    fetched,         \* what the transcript request came to
    poll_result,     \* what poll_transcription_result returned
    out,             \* what transcribe_audio_file returned
    calls,           \* the methods transcribe_audio_file called, in order
    uploaded,        \* the body of the server's reply to the upload
    created,         \* the body of the server's reply to the create request
    file_id,         \* what upload_audio_file returned
    transcription_id,\* what create_transcription returned
    \* ElevenLabsSTTClient.transcribe_audio
    is_running,      \* the worker's flag
    has_parent,      \* the forwarder leads to the worker
    file_exists,     \* os.path.exists(audio_file_path)
    el_step,         \* where the transcribing thread stands
    flags,           \* the flag as it stood at each check made so far
    sent,            \* HTTP requests sent
    el_response,     \* what the request came to
    el_out           \* what transcribe_audio returned

\* the variables of the parser, of the Soniox client and of the ElevenLabs
\* client
parserVars == <<data, source_format, pc, result, raised, logs, called, sink>>
sonioxVars == <<clock, step, timeout_seconds, start_time, elapsed_time, poll_interval,
                session, stops, used, last, status_result, fetched, poll_result, out,
                calls, uploaded, created, file_id, transcription_id>>
elevenlabsVars == <<is_running, has_parent, file_exists, el_step, flags, sent, el_response,
                    el_out>>

vars == <<parserVars, sonioxVars, elevenlabsVars>>

\* no call of transcribe_audio_file in progress
SonioxIdle ==
    /\ clock = 0
    /\ step = "idle"
    /\ timeout_seconds = 0
    /\ start_time = 0
    /\ elapsed_time = 0
    /\ poll_interval = 0
    /\ session = 0
    /\ stops = 0
    /\ used = 0
    /\ last = NoResponse
    /\ status_result = None
    /\ fetched = NoResponse
    /\ poll_result = None
    /\ out = None
    /\ calls = <<>>
    /\ uploaded = None
    /\ created = None
    /\ file_id = None
    /\ transcription_id = None

\* no call of transcribe_audio in progress
ElevenLabsIdle ==
    /\ is_running = TRUE
    /\ has_parent = FALSE
    /\ file_exists = FALSE
    /\ el_step = "idle"
    /\ flags = <<>>
    /\ sent = 0
    /\ el_response = NoResponse
    /\ el_out = None

\* no call of parse to come
ParserIdle ==
    /\ data = JObj(<<>>)
    /\ source_format = "soniox"
    /\ sink = Console
    /\ pc = "idle"
    /\ result = None
    /\ raised = "none"
    /\ logs = <<>>
    /\ called = <<>>

ClientsIdle == SonioxIdle /\ ElevenLabsIdle

\* data is a flat input with a list of up to MaxLen entries
InitFlat(tag) ==
    \E n \in 0..MaxLen : \E ws \in Lists(tag, n) : \E ft \in ListFullTexts :
        data = Flat(tag, JList(ws), ft, Absent)

\* data is a flat input with a short list or no list, an odd full text, a status
InitOdd(tag) ==
    \E w \in NoLists \cup {JList(ws) : ws \in Lists(tag, 0) \cup Lists(tag, 1)} :
        \E ft \in FullTexts \cup OddFullTexts : \E st \in Statuses \cup {Absent} :
            data = Flat(tag, w, ft, st)

\* data keeps its words in groups: with no top-level words, with odd groups,
\* or beside top-level words that are empty or no list
InitNested(tag) ==
    \/ \E n \in 1..MaxLen : \E ws \in Lists(tag, n) : \E ft \in ListFullTexts :
          data = Nested(tag, Groups(ws), ft, Absent)
    \/ \E g \in OddGroups : \E ft \in FullTexts : \E w \in {Absent, None, JInt(5)} :
          data = Nested(tag, g, ft, w)
    \/ \E ws \in Lists(tag, 1) \cup Lists(tag, 2) : \E ft \in ListFullTexts :
          \E w \in {JList(<<>>), None, JInt(5)} :
              data = Nested(tag, Groups(ws), ft, w)

\* data is a Deepgram response, whole or broken
InitDeepgram ==
    \/ \E n \in 0..MaxLen : \E ws \in Lists("deepgram", n) : \E ft \in ListFullTexts :
          data = Wrap(Flat("deepgram", JList(ws), ft, Absent))
    \/ \E w \in NoLists : \E ft \in FullTexts \cup OddFullTexts :
          data = Wrap(Flat("deepgram", w, ft, Absent))
    \/ data \in {Wrap(a) : a \in OddAlternatives} \cup BrokenDeepgram

Init ==
    /\ source_format \in Formats \cup OtherTags
    /\ CASE source_format = "deepgram" -> InitDeepgram
         [] source_format \in {"whisper", "assemblyai"} ->
               InitFlat(source_format) \/ InitOdd(source_format) \/ InitNested(source_format)
         [] source_format \in OtherTags -> InitOdd("whisper") \/ data \in BrokenDeepgram
         [] OTHER -> InitFlat(source_format) \/ InitOdd(source_format)
    /\ pc = "ready"
    /\ result = None
    /\ raised = "none"
    /\ logs = <<>>
    /\ called = <<>>
    /\ ClientsIdle
    /\ sink = Console

\* data after the call: the Whisper and AssemblyAI adapters are the only ones
\* that call a method that writes (extend) on a list; every other line reads
data_after(d, fmt, ran) ==
    IF "whisper" \in ran /\ IsDict(d) THEN AfterWordsList(d, "segments")
    ELSE IF "assemblyai" \in ran /\ IsDict(d) THEN AfterWordsList(d, "utterances")
    ELSE d

\* TranscriptionParser.parse(data, source_format)
parse ==
    /\ pc = "ready"
    /\ LET o == Emit(parse_call(data, source_format), sink)
       IN /\ result' = o.result
          /\ raised' = o.raised
          /\ logs' = o.logs
          /\ called' = o.called
          /\ data' = data_after(data, source_format, {o.called[i] : i \in DOMAIN o.called})
    /\ pc' = "done"
    /\ UNCHANGED <<source_format, sink, sonioxVars, elevenlabsVars>>

Next == parse

Spec == Init /\ [][Next]_vars

\* ------------------------------------- calls on inputs with optional fields
\* data is a list of up to MaxLen entries with optional fields and no full
\* text, or a short list with a full text and a status; with or without
\* soniox_metadata
InitFieldsData(tag) ==
    \/ \E n \in 0..MaxLen : \E ws \in FieldLists(tag, n) : \E md \in Metadatas :
          data = Shaped(tag, FlatMeta(tag, JList(ws), Absent, Absent, md))
    \/ \E n \in 0..1 : \E ws \in FieldLists(tag, n) : \E ft \in FullTexts :
          \E st \in Statuses \cup {Absent} : \E md \in Metadatas :
              data = Shaped(tag, FlatMeta(tag, JList(ws), ft, st, md))

InitFields ==
    /\ source_format \in Formats
    /\ InitFieldsData(source_format)
    /\ pc = "ready"
    /\ result = None
    /\ raised = "none"
    /\ logs = <<>>
    /\ called = <<>>
    /\ ClientsIdle
    /\ sink = Console

SpecFields == InitFields /\ [][Next]_vars

\* ------------------------------------------------ calls with any log sink
\* the sinks: the console, and forwarders whose emit fails at any set of calls
Sinks == {Console} \cup {Forwarder(fails) : fails \in SUBSET (1..MaxEmit)}

\* data is a flat input (wrapped for Deepgram) with a list shorter than MaxLen
InitSinkData(tag) ==
    \E n \in 0..(MaxLen - 1) : \E ws \in Lists(tag, n) : \E ft \in ListFullTexts :
        data = Shaped(tag, Flat(tag, JList(ws), ft, Absent))

InitSink ==
    /\ source_format \in Formats \cup {"made_up_format"}
    /\ InitSinkData(IF source_format \in Formats THEN source_format ELSE "whisper")
    /\ sink \in Sinks
    /\ pc = "ready"
    /\ result = None
    /\ raised = "none"
    /\ logs = <<>>
    /\ called = <<>>
    /\ ClientsIdle

SpecSink == InitSink /\ [][Next]_vars

\* ------------------------------------- calls on entries with aliased keys
\* the adapters that read a word's text under two keys, and the second key
AliasFormats == {"elevenlabs", "elevenlabs_api", "whisper", "deepgram"}
AliasKey(fmt) ==
    CASE fmt = "whisper" -> "text"
      [] fmt = "deepgram" -> "punctuated_word"
      [] OTHER -> "word"

\* the ways an entry carries its text under the two keys: under one of them
\* with the other absent or null, or under both
AliasTexts == {<<JStr(<<"a">>), Absent>>, <<Absent, JStr(<<"b">>)>>,
               <<None, JStr(<<"c">>)>>, <<JStr(<<"d">>), None>>,
               <<JStr(<<"e">>), JStr(<<"f">>)>>}

\* the ways an ElevenLabs entry names its speaker under speaker_id / speaker
AliasSpeakers(fmt) ==
    IF fmt \in {"elevenlabs", "elevenlabs_api"}
    THEN {<<Absent, Absent>>, <<JStr(<<"S">>), Absent>>, <<Absent, JStr(<<"T">>)>>,
          <<None, JStr(<<"U">>)>>}
    ELSE {<<Absent, Absent>>}

\* a complete entry with its text and speaker under the keys given
AliasEntry(fmt, text, speaker) ==
    MkObj(<< <<TextKey(fmt), text[1]>>, <<AliasKey(fmt), text[2]>>,
             <<"start", JInt(0)>>, <<"end", JInt(1)>>,
             <<"speaker_id", speaker[1]>>, <<"speaker", speaker[2]>> >>)

AliasKinds(fmt) ==
    {AliasEntry(fmt, t, sp) : t \in AliasTexts, sp \in AliasSpeakers(fmt)}

\* data is a list of fewer than MaxLen entries and no full text
InitAlias ==
    /\ source_format \in AliasFormats
    /\ \E n \in 0..(MaxLen - 1) : \E ws \in [1..n -> AliasKinds(source_format)] :
          data = Shaped(source_format, Flat(source_format, JList(ws), Absent, Absent))
    /\ sink = Console
    /\ pc = "ready"
    /\ result = None
    /\ raised = "none"
    /\ logs = <<>>
    /\ called = <<>>
    /\ ClientsIdle

SpecAlias == InitAlias /\ [][Next]_vars

\* ------------------------------------- calls on inputs with foreign fields
\* the keys of a provider's own shape: those its adapter reads
OwnEntryKeys(fmt) ==
    CASE fmt = "elevenlabs" -> {"text", "word", "start", "end", "speaker_id", "speaker"}
      [] fmt = "elevenlabs_api" -> {"text", "word", "start", "end", "speaker_id", "speaker", "type"}
      [] fmt = "whisper" -> {"word", "text", "start", "end"}
      [] fmt = "deepgram" -> {"word", "punctuated_word", "start", "end", "speaker"}
      [] fmt = "assemblyai" -> {"text", "start", "end", "speaker"}
      [] fmt = "soniox" -> {"text", "start_ms", "end_ms", "speaker", "confidence", "is_final",
                            "language"}
OwnTopKeys(fmt) ==
    CASE fmt = "elevenlabs" -> {"words", "text", "language_code", "language"}
      [] fmt = "elevenlabs_api" -> {"words", "text", "language_code"}
      [] fmt = "whisper" -> {"words", "segments", "text", "language"}
      [] fmt = "deepgram" -> {"results"}
      [] fmt = "assemblyai" -> {"words", "utterances", "text", "language_code"}
      [] fmt = "soniox" -> {"tokens", "status", "text", "soniox_metadata"}

\* a value a field of that name would hold in the provider that has it
ForeignValue(k) ==
    CASE k \in {"text", "word", "punctuated_word", "transcript"} -> JStr(<<"X">>)
      [] k \in {"start", "end", "start_ms", "end_ms"} -> JInt(7)
      [] k \in {"speaker", "speaker_id"} -> JStr(<<"Z">>)
      [] k = "confidence" -> JFloat(FloatUnit \div 2)
      [] k = "is_final" -> JBool(FALSE)
      [] k = "type" -> JStr(AudioEventChars)
      [] k \in {"language", "language_code", "detected_language"} -> JStr(<<"z", "z">>)
      [] k \in {"words", "tokens"} ->
            JList(<<MkObj(<< <<"text", JStr(<<"y">>)>>, <<"word", JStr(<<"y">>)>>,
                             <<"start", JInt(0)>>, <<"end", JInt(1)>>,
                             <<"start_ms", JInt(0)>>, <<"end_ms", JInt(1)>> >>)>>)
      [] k \in {"segments", "utterances"} ->
            JList(<<MkObj(<< <<"words", JList(<<MkObj(<< <<"text", JStr(<<"y">>)>>,
                                                         <<"word", JStr(<<"y">>)>>,
                                                         <<"start", JInt(0)>>,
                                                         <<"end", JInt(1)>> >>)>>)>> >>)>>)
      [] k = "status" -> JStr(CompletedChars)
      [] k = "soniox_metadata" -> JObj(<< <<"job_id", JStr(<<"j">>)>> >>)

\* the <<key, value>> pairs of the keys in ks, in the order of `order`
RECURSIVE ForeignPairs(_, _)
ForeignPairs(order, ks) ==
    IF order = <<>> THEN <<>>
    ELSE (IF Head(order) \in ks THEN << <<Head(order), ForeignValue(Head(order))>> >> ELSE <<>>)
         \o ForeignPairs(Tail(order), ks)

\* the keys some adapter reads in a word entry, and at the top level
EntryKeyOrder == <<"text", "word", "punctuated_word", "start", "end", "start_ms", "end_ms",
                   "speaker", "speaker_id", "confidence", "is_final", "type", "language">>
TopKeyOrder == <<"words", "tokens", "segments", "utterances", "text", "transcript", "status",
                 "soniox_metadata", "language", "language_code", "detected_language">>

\* the object with every field of the other providers added to it
WithForeign(obj, order, own) ==
    JObj(obj.v \o ForeignPairs(order, {order[i] : i \in DOMAIN order} \ own))

\* word entries: complete, without an end, or with text that is no word;
\* each as the provider sends it and with the foreign fields added
PlainKinds(fmt) ==
    {Entry(fmt, JStr(<<"a">>), JInt(0), JInt(1), Absent),
     Entry(fmt, JStr(<<"b">>), JInt(1), JInt(2), Absent),
     Entry(fmt, JStr(<<"n">>), JInt(0), Absent, Absent)}
ForeignKinds(fmt) ==
    PlainKinds(fmt) \cup {WithForeign(e, EntryKeyOrder, OwnEntryKeys(fmt)) : e \in PlainKinds(fmt)}

\* data is a list of up to MaxLen such entries, with or without a full text,
\* as the provider sends it or with the foreign fields added at the top level
InitForeign ==
    /\ source_format \in Formats
    /\ \E n \in 0..MaxLen : \E ws \in [1..n -> ForeignKinds(source_format)] :
       \E ft \in ListFullTexts : \E top \in BOOLEAN :
          LET own == Shaped(source_format, Flat(source_format, JList(ws), ft, Absent))
          IN data = IF top THEN WithForeign(own, TopKeyOrder, OwnTopKeys(source_format))
                    ELSE own
    /\ sink = Console
    /\ pc = "ready"
    /\ result = None
    /\ raised = "none"
    /\ logs = <<>>
    /\ called = <<>>
    /\ ClientsIdle

SpecForeign == InitForeign /\ [][Next]_vars

\* ------------------------------------ SonioxClient.transcribe_audio_file
\* stop_current_task is called at most MaxStops times; the clock is read up
\* to MaxClock; a request takes up to RequestTime seconds on the clock
MaxStops == 1
MaxClock == 100
RequestTime == 1

\* the timeouts polling is started with: none, a short one, and one past the
\* minute after which the interval reaches its largest value
ShortTimeout == 7
LongTimeout == 65
Timeouts == {0, ShortTimeout, LongTimeout}

\* what the server may answer to an upload or a create request
IdBodies(id) == {NotJson, JList(<<>>), JObj(<<>>), JObj(<< <<"id", JStr(<<>>)>> >>),
                 JObj(<< <<"id", JStr(<<id>>)>> >>)}
IdResponses(id) ==
    {NetworkError, Response(500, NotJson)}
    \cup {Response(200, b) : b \in IdBodies(id)}
    \cup {Response(201, JObj(<< <<"id", JStr(<<id>>)>> >>))}

\* ... to a status request
StatusBody(status) == MkObj(<< <<"id", JStr(<<"T">>)>>, <<"status", status>> >>)
StatusBodies ==
    {NotJson, JList(<<>>)}
    \cup {StatusBody(st) : st \in {JStr(CompletedChars), JStr(FailedChars), JStr(ErrorChars),
                                   JStr(QueuedChars), JStr(ProcessingChars),
                                   JStr(TranscribingChars), JStr(<<"o", "d", "d">>), Absent}}
StatusResponses ==
    {NetworkError}
    \cup {Response(c, NotJson) : c \in {401, 403, 404, 500}}
    \cup {Response(200, b) : b \in StatusBodies}

\* ... and to the request for the transcript
Token == MkObj(<< <<"text", JStr(<<"a">>)>>, <<"start_ms", JInt(0)>>, <<"end_ms", JInt(500)>> >>)
TranscriptBodies ==
    {NotJson, JList(<<>>), JObj(<<>>),
     JObj(<< <<"tokens", JInt(5)>> >>),
     JObj(<< <<"text", JStr(<<"a">>)>> >>),
     JObj(<< <<"id", JStr(<<"T">>)>>, <<"text", JStr(<<"a">>)>>, <<"tokens", JList(<<Token>>)>> >>),
     JObj(<< <<"status", JStr(<<"o", "k">>)>>, <<"tokens", JList(<<>>)>> >>),
     JObj(<< <<"tokens", JList(<<Token>>)>>, <<"soniox_metadata", JInt(1)>> >>)}
TranscriptResponses ==
    {NetworkError, Response(500, NotJson)} \cup {Response(200, b) : b \in TranscriptBodies}

\* the clock d seconds on
Later(d) == IF clock + d > MaxClock THEN MaxClock ELSE clock + d

\* transcribe_audio_file is called, with the timeout polling will get
InitSoniox ==
    /\ ParserIdle
    /\ ElevenLabsIdle
    /\ clock = 0
    /\ step = "upload"
    /\ timeout_seconds \in Timeouts
    /\ start_time = 0
    /\ elapsed_time = 0
    /\ poll_interval = 0
    /\ session = 0
    /\ stops = 0
    /\ used = 0
    /\ last = NoResponse
    /\ status_result = None
    /\ fetched = NoResponse
    /\ poll_result = None
    /\ out = None
    /\ calls = <<>>
    /\ uploaded = None
    /\ created = None
    /\ file_id = None
    /\ transcription_id = None

\* file_id = self.upload_audio_file(...); if not file_id: return None
upload_audio_file ==
    /\ step = "upload"
    /\ \E r \in IdResponses("F") :
          /\ uploaded' = r.body
          /\ file_id' = IdOf(r)
          /\ step' = IF Truthy(IdOf(r)) THEN "create" ELSE "done"
    /\ calls' = Append(calls, "upload_audio_file")
    /\ UNCHANGED <<parserVars, elevenlabsVars, clock, timeout_seconds, start_time,
                   elapsed_time, poll_interval, session, stops, used, last, status_result,
                   fetched, poll_result, out, created, transcription_id>>

\* transcription_id = self.create_transcription(config, file_id=file_id);
\* if not transcription_id: return None
create_transcription ==
    /\ step = "create"
    /\ \E r \in IdResponses("T") :
          /\ created' = r.body
          /\ transcription_id' = IdOf(r)
          /\ step' = IF Truthy(IdOf(r)) THEN "poll" ELSE "done"
    /\ calls' = Append(calls, "create_transcription")
    /\ UNCHANGED <<parserVars, elevenlabsVars, clock, timeout_seconds, start_time,
                   elapsed_time, poll_interval, session, stops, used, last, status_result,
                   fetched, poll_result, out, uploaded, file_id>>

\* poll_transcription_result is entered: start_time = time.time();
\* poll_interval = 2
poll_transcription_result ==
    /\ step = "poll"
    /\ start_time' = clock
    /\ poll_interval' = 2
    /\ step' = "loop"
    /\ calls' = Append(calls, "poll_transcription_result")
    /\ UNCHANGED <<parserVars, elevenlabsVars, clock, timeout_seconds, elapsed_time, session,
                   stops, used, last, status_result, fetched, poll_result, out,
                   uploaded, created, file_id, transcription_id>>

\* the top of the loop: elapsed_time = time.time() - start_time, and
\* return None once it is past the timeout
poll_loop ==
    /\ step = "loop"
    /\ elapsed_time' = clock - start_time
    /\ IF TimedOut(clock - start_time, timeout_seconds)
       THEN /\ poll_result' = None
            /\ step' = "polled"
       ELSE /\ step' = "get"
            /\ UNCHANGED poll_result
    /\ UNCHANGED <<parserVars, elevenlabsVars, clock, timeout_seconds, start_time,
                   poll_interval, session, stops, used, last, status_result, fetched, out,
                   calls, uploaded, created, file_id, transcription_id>>

\* self._session.get(status_url, ...) goes out on the session the client
\* holds at that moment
poll_get ==
    /\ step = "get"
    /\ used' = session
    /\ step' = "wait"
    /\ UNCHANGED <<parserVars, elevenlabsVars, clock, timeout_seconds, start_time,
                   elapsed_time, poll_interval, session, stops, last, status_result, fetched,
                   poll_result, out, calls, uploaded, created, file_id,
                   transcription_id>>

\* the status request comes back (a response or a RequestException) and the
\* rest of the loop body runs on it
poll_status ==
    /\ step = "wait"
    /\ \E r \in StatusResponses : \E d \in 0..RequestTime :
          /\ last' = r
          /\ clock' = Later(d)
          /\ poll_interval' = OnStatus(r, elapsed_time, poll_interval).poll_interval
          /\ step' = CASE OnStatus(r, elapsed_time, poll_interval).next = "sleep" -> "sleep"
                       [] OnStatus(r, elapsed_time, poll_interval).next = "fetch" -> "fetch"
                       [] OTHER -> "polled"
          /\ status_result' = IF OnStatus(r, elapsed_time, poll_interval).next = "fetch"
                              THEN r.body ELSE status_result
    /\ poll_result' = None
    /\ UNCHANGED <<parserVars, elevenlabsVars, timeout_seconds, start_time, elapsed_time,
                   session, stops, used, fetched, out, calls, uploaded,
                   created, file_id, transcription_id>>

\* time.sleep(poll_interval)
poll_sleep ==
    /\ step = "sleep"
    /\ clock' = Later(poll_interval)
    /\ step' = "loop"
    /\ UNCHANGED <<parserVars, elevenlabsVars, timeout_seconds, start_time, elapsed_time,
                   poll_interval, session, stops, used, last, status_result, fetched,
                   poll_result, out, calls, uploaded, created, file_id,
                   transcription_id>>

\* the job is completed: fetch the transcript and return the merged result,
\* or None without it
poll_fetch ==
    /\ step = "fetch"
    /\ \E r \in TranscriptResponses :
          /\ fetched' = r
          /\ poll_result' = Completed(status_result, _fetch_transcript_content(r))
    /\ step' = "polled"
    /\ UNCHANGED <<parserVars, elevenlabsVars, clock, timeout_seconds, start_time,
                   elapsed_time, poll_interval, session, stops, used, last, status_result,
                   out, calls, uploaded, created, file_id, transcription_id>>

\* back in transcribe_audio_file: the metadata is added to a result
transcribe_audio_file ==
    /\ step = "polled"
    /\ out' = WithMetadata(poll_result, file_id, transcription_id)
    /\ step' = "done"
    /\ UNCHANGED <<parserVars, elevenlabsVars, clock, timeout_seconds, start_time,
                   elapsed_time, poll_interval, session, stops, used, last, status_result,
                   fetched, poll_result, calls, uploaded, created, file_id,
                   transcription_id>>

\* stop_current_task, called from another thread while the call is under
\* way: the session is closed and a new one put in its place
stop_current_task ==
    /\ step # "done"
    /\ stops < MaxStops
    /\ stops' = stops + 1
    /\ session' = session + 1
    /\ UNCHANGED <<parserVars, elevenlabsVars, clock, step, timeout_seconds, start_time,
                   elapsed_time, poll_interval, used, last, status_result, fetched,
                   poll_result, out, calls, uploaded, created, file_id,
                   transcription_id>>

\* the steps of the thread that runs transcribe_audio_file
Transcribing ==
    \/ upload_audio_file
    \/ create_transcription
    \/ poll_transcription_result
    \/ poll_loop
    \/ poll_get
    \/ poll_status
    \/ poll_sleep
    \/ poll_fetch
    \/ transcribe_audio_file

NextSoniox == Transcribing \/ stop_current_task

SpecSoniox == InitSoniox /\ [][NextSoniox]_vars

\* the thread is scheduled, every request returns (it has a timeout) and so
\* does every sleep
SpecSonioxFair == SpecSoniox /\ WF_vars(Transcribing)

\* ---------------------------------- ElevenLabsSTTClient.transcribe_audio
\* what requests.post may come to
ElevenLabsBodies == {NotJson, None, JObj(<<>>),
                     JObj(<< <<"text", JStr(<<"a">>)>>, <<"words", JList(<<>>)>> >>)}
ElevenLabsResponses ==
    {TimeoutError, NetworkError}
    \cup {Response(c, b) : c \in {200, 401, 500}, b \in ElevenLabsBodies}

\* transcribe_audio is called by a client with or without a worker behind
\* its forwarder, the worker running or already stopped
InitElevenLabs ==
    /\ ParserIdle
    /\ SonioxIdle
    /\ is_running \in BOOLEAN
    /\ has_parent \in BOOLEAN
    /\ file_exists \in BOOLEAN
    /\ el_step = "start"
    /\ flags = <<>>
    /\ sent = 0
    /\ el_response = NoResponse
    /\ el_out = None

\* the call starts: return None if the worker is not running or the file is
\* not there
transcribe_audio ==
    /\ el_step = "start"
    /\ flags' = Append(flags, is_running)
    /\ el_step' = IF _is_worker_running(has_parent, is_running) /\ file_exists
                  THEN "post" ELSE "returned"
    /\ UNCHANGED <<parserVars, sonioxVars, is_running, has_parent, file_exists, sent,
                   el_response, el_out>>

\* requests.post(...) sends the file
post ==
    /\ el_step = "post"
    /\ sent' = sent + 1
    /\ el_step' = "wait"
    /\ UNCHANGED <<parserVars, sonioxVars, is_running, has_parent, file_exists, flags,
                   el_response, el_out>>

\* the request ends: an exception is handled by returning None, a response
\* goes on to the second check
respond ==
    /\ el_step = "wait"
    /\ \E r \in ElevenLabsResponses :
          /\ el_response' = r
          /\ el_step' = IF r.kind = "response" THEN "arrived" ELSE "returned"
    /\ UNCHANGED <<parserVars, sonioxVars, is_running, has_parent, file_exists, flags, sent,
                   el_out>>

\* after the response: return None if the worker is not running any more,
\* else the decoded body
check_response ==
    /\ el_step = "arrived"
    /\ flags' = Append(flags, is_running)
    /\ el_out' = IF _is_worker_running(has_parent, is_running) THEN OnResponse(el_response)
                 ELSE None
    /\ el_step' = "returned"
    /\ UNCHANGED <<parserVars, sonioxVars, is_running, has_parent, file_exists, sent,
                   el_response>>

\* the worker is told to stop, or started again, by another thread
set_is_running ==
    /\ el_step # "returned"
    /\ is_running' = ~is_running
    /\ UNCHANGED <<parserVars, sonioxVars, has_parent, file_exists, el_step, flags, sent,
                   el_response, el_out>>

NextElevenLabs ==
    \/ transcribe_audio
    \/ post
    \/ respond
    \/ check_response
    \/ set_is_running

SpecElevenLabs == InitElevenLabs /\ [][NextElevenLabs]_vars

\* ============================================================== properties
\* ----------------------------------------------- reading the input (claims)
Done == pc = "done"
HasResult == Done /\ result.t = "ParsedTranscription"

\* the path results.channels[0].alternatives[0] of a Deepgram input exists
HasAlternative ==
    /\ HasKey(data, "results") /\ IsDict(Item(data, "results"))
    /\ HasKey(Item(data, "results"), "channels")
    /\ IsList(Item(Item(data, "results"), "channels"))
    /\ Len(Item(Item(data, "results"), "channels").v) > 0
    /\ IsDict(Item(Item(data, "results"), "channels").v[1])
    /\ HasKey(Item(Item(data, "results"), "channels").v[1], "alternatives")
    /\ IsList(Item(Item(Item(data, "results"), "channels").v[1], "alternatives"))
    /\ Len(Item(Item(Item(data, "results"), "channels").v[1], "alternatives").v) > 0

TheAlternative == Item(Item(Item(data, "results"), "channels").v[1], "alternatives").v[1]

\* the object that carries the word list and the full text
Holder == IF source_format = "deepgram" THEN TheAlternative ELSE data
HasHolder == source_format # "deepgram" \/ (HasAlternative /\ IsDict(TheAlternative))

\* the input supplies a full text (under `text`, or `transcript` for Deepgram)
FullTextSupplied == HasHolder /\ HasKey(Holder, FullTextKey(source_format))
\* ... and it is text, if it is there
FullTextIsText ==
    ~FullTextSupplied \/ Item(Holder, FullTextKey(source_format)).t = "str"

\* the word lists found under the groups of a nested input, in group order
RECURSIVE GroupedWords(_)
GroupedWords(gs) ==
    IF gs = <<>> THEN <<>>
    ELSE (IF IsDict(Head(gs)) /\ HasKey(Head(gs), "words") /\ IsList(Item(Head(gs), "words"))
          THEN Item(Head(gs), "words").v ELSE <<>>) \o GroupedWords(Tail(gs))

IsNestedFormat == source_format \in {"whisper", "assemblyai"}

\* the provider's word entries in the order given: the list under
\* words / tokens, or for Whisper and AssemblyAI without a top-level list the
\* lists of the segments / utterances one after the other
GivenWords ==
    IF ~HasHolder THEN <<>>
    ELSE IF HasKey(Holder, WordsKey(source_format))
            /\ IsList(Item(Holder, WordsKey(source_format)))
    THEN Item(Holder, WordsKey(source_format)).v
    ELSE IF IsNestedFormat /\ HasKey(data, NestedKey(source_format))
            /\ IsList(Item(data, NestedKey(source_format)))
    THEN GroupedWords(Item(data, NestedKey(source_format)).v)
    ELSE <<>>

\* a field of an entry is there and not null
Has(e, k) == HasKey(e, k) /\ Item(e, k).t # "null"

\* a timestamp value that is a number, or a string that reads as one
Numeric(x) == x.t \in {"int", "float"} \/ (x.t = "str" /\ PyFloat(x).exc = "none")

\* the entry has all three fields
Complete(e) ==
    /\ IsDict(e)
    /\ Has(e, TextKey(source_format))
    /\ Has(e, StartKey(source_format))
    /\ Has(e, EndKey(source_format))

\* the entry is an object that lacks its text, its start or its end
MissingField(e) == IsDict(e) /\ ~Complete(e)

\* a Soniox token explicitly marked is_final: false (discarded by design)
NonFinal(e) ==
    /\ source_format = "soniox"
    /\ HasKey(e, "is_final")
    /\ Item(e, "is_final").t = "bool"
    /\ ~Item(e, "is_final").v

\* the entry has a non-empty text and numeric times, and is not a token
\* Soniox discards as non-final
WellFormed(e) ==
    /\ Complete(e)
    /\ Item(e, TextKey(source_format)).t = "str"
    /\ Item(e, TextKey(source_format)).v # <<>>
    /\ Numeric(Item(e, StartKey(source_format)))
    /\ Numeric(Item(e, EndKey(source_format)))
    /\ ~NonFinal(e)

\* the entry is complete but its start or end is no number: a non-numeric
\* string, a list or an object
CorruptTime(e) ==
    /\ Complete(e)
    /\ Item(e, TextKey(source_format)).t = "str"
    /\ Item(e, TextKey(source_format)).v # <<>>
    /\ ~NonFinal(e)
    /\ \A k \in {StartKey(source_format), EndKey(source_format)} :
          Item(e, k).t \in {"int", "float", "str", "list", "obj"}
    /\ \E k \in {StartKey(source_format), EndKey(source_format)} : ~Numeric(Item(e, k))

\* the entry's start or end is a list or an object
ContainerTime(e) ==
    /\ IsDict(e)
    /\ \E k \in {StartKey(source_format), EndKey(source_format)} :
          HasKey(e, k) /\ Item(e, k).t \in {"list", "obj"}

\* seconds of a provider time: milliseconds for AssemblyAI and Soniox
Seconds(x) ==
    IF source_format \in {"assemblyai", "soniox"} THEN PyFloat(x).val \div MsPerSecond
    ELSE PyFloat(x).val

\* text and times of the word a complete entry with numeric times stands for
WordOf(e) ==
    [text |-> Item(e, TextKey(source_format)).v,
     start_time |-> Seconds(Item(e, StartKey(source_format))),
     end_time |-> Seconds(Item(e, EndKey(source_format)))]

\* text and times of the words of a transcription
Shape(ws) ==
    [i \in 1..Len(ws) |->
        [text |-> ws[i].text, start_time |-> ws[i].start_time, end_time |-> ws[i].end_time]]

\* the words of the well-formed entries, in the order of the entries
RECURSIVE WellFormedWords(_)
WellFormedWords(es) ==
    IF es = <<>> THEN <<>>
    ELSE (IF WellFormed(Head(es)) THEN <<WordOf(Head(es))>> ELSE <<>>)
         \o WellFormedWords(Tail(es))

\* xs can be got from ys by leaving elements out
RECURSIVE IsSubseq(_, _)
IsSubseq(xs, ys) ==
    IF xs = <<>> THEN TRUE
    ELSE IF ys = <<>> THEN FALSE
    ELSE IF Head(xs) = Head(ys) THEN IsSubseq(Tail(xs), Tail(ys))
    ELSE IsSubseq(xs, Tail(ys))

\* the number of entries that satisfy P is counted with these index sets
CorruptAt == {i \in 1..Len(GivenWords) : CorruptTime(GivenWords[i])}
WellFormedAt == {i \in 1..Len(GivenWords) : WellFormed(GivenWords[i])}
MissingAt == {i \in 1..Len(GivenWords) : MissingField(GivenWords[i])}

\* the parse call was made with one of the six recognized tags
Known == source_format \in Formats

\* -------------------------------------------------------------------- C1
\* C1: parse never raises: for every input object (word containers that are
\* no lists, entries that are no objects included) and each of the six tags
\* the call returns a ParsedTranscription or None, and no exception leaves it.
C1_ParseNeverRaises ==
    (Done /\ Known) =>
        /\ raised = "none"
        /\ result = None \/ result.t = "ParsedTranscription"

\* an exception raised inside an adapter was turned into None by parse
C1_Witness ==
    /\ Done /\ Known
    /\ result = None
    /\ \E i \in 1..Len(logs) : logs[i].src = "parse" /\ logs[i].what = "traceback"

\* -------------------------------------------------------------------- C2
\* C2: a word list in which one entry has a non-numeric start or end (a
\* non-numeric string, a list or an object) and every other entry is well
\* formed parses to a transcription whose words are exactly the well-formed
\* entries, in their order.
C2_CorruptTimeSkipped ==
    (/\ Done /\ Known
     /\ FullTextIsText
     /\ Cardinality(CorruptAt) = 1
     /\ CorruptAt \cup WellFormedAt = 1..Len(GivenWords))
    => (/\ HasResult
        /\ Shape(result.words) = WellFormedWords(GivenWords))

\* -------------------------------------------------------------------- C3
\* C3: an entry (an object) that lacks its text, start or end is skipped
\* without aborting the parse: the result is a transcription, it holds the
\* word of every well-formed entry of the list in order, and no word for the
\* entries with a missing field.  (Read for lists whose entries are all
\* objects and have no list or object as a time; a Soniox token marked
\* is_final: false does not count as well-formed.)
C3_MissingFieldSkipped ==
    (/\ Done /\ Known
     /\ FullTextIsText
     /\ MissingAt # {}
     /\ \A i \in 1..Len(GivenWords) :
           IsDict(GivenWords[i]) /\ ~ContainerTime(GivenWords[i]))
    => (/\ HasResult
        /\ IsSubseq(WellFormedWords(GivenWords), Shape(result.words))
        /\ Len(result.words) <= Len(GivenWords) - Cardinality(MissingAt))

\* a list with a well-formed entry before and after an entry with a missing
\* field was parsed to the two words
C3_Witness ==
    /\ HasResult /\ Known
    /\ Len(GivenWords) = 3
    /\ MissingAt = {2}
    /\ WellFormedAt = {1, 3}
    /\ Len(result.words) = 2

\* -------------------------------------------------------------------- C4
\* the texts of words joined by single spaces
RECURSIVE SpaceJoined(_)
SpaceJoined(ws) ==
    IF ws = <<>> THEN <<>>
    ELSE IF Len(ws) = 1 THEN ws[1].text
    ELSE ws[1].text \o <<" ">> \o SpaceJoined(Tail(ws))

\* the text is wholly wrapped in parentheses
Wrapped(text) == Len(text) > 0 /\ text[1] = "(" /\ text[Len(text)] = ")"

\* the input has word entries and no full-text field, and was parsed
DerivedText ==
    /\ HasResult /\ Known
    /\ GivenWords # <<>>
    /\ ~FullTextSupplied

\* C4 as claimed: with word entries and no full-text field, full_text is the
\* texts of all the returned words, in order, joined by single spaces, for
\* every adapter.
C4_FullTextJoinsAllWords ==
    DerivedText => result.full_text = JStr(SpaceJoined(result.words))

\* C4 as amended: that holds for every adapter but ElevenLabs-API, whose
\* derived full_text joins the returned words that are not wholly wrapped in
\* parentheses.
C4_FullTextJoinsWords ==
    DerivedText =>
        result.full_text =
            JStr(SpaceJoined(IF source_format = "elevenlabs_api"
                             THEN SelectSeq(result.words, LAMBDA w : ~Wrapped(w.text))
                             ELSE result.words))

\* a text was derived from two or more words, one of them parenthesised
C4_Witness ==
    /\ DerivedText
    /\ Len(result.words) >= 2
    /\ \E i \in 1..Len(result.words) : Wrapped(result.words[i].text)
    /\ \E i \in 1..Len(result.words) : ~Wrapped(result.words[i].text)

\* -------------------------------------------------------------------- C5
\* C5: a returned transcription with words and no full text supplied by the
\* input has a non-empty full_text.
C5_DerivedTextNonEmpty ==
    (HasResult /\ Known /\ HasHolder /\ ~FullTextSupplied /\ result.words # <<>>)
    => (result.full_text.t = "str" /\ result.full_text.v # <<>>)

\* -------------------------------------------------------------------- C6
\* C6: every word of a returned transcription has a non-empty text and
\* start_time <= end_time.
C6_WordsValid ==
    (HasResult /\ Known) =>
        \A i \in 1..Len(result.words) :
            /\ result.words[i].text # <<>>
            /\ result.words[i].start_time <= result.words[i].end_time

\* -------------------------------------------------------------------- C7
\* C7: parse with a tag outside the six recognized ones returns None, logs an
\* error naming the tag, runs no adapter and lets no exception escape.
C7_UnknownFormat ==
    (Done /\ ~Known) =>
        /\ result = None
        /\ raised = "none"
        /\ called = <<>>
        /\ \E i \in 1..Len(logs) :
              /\ logs[i].lvl = "error"
              /\ logs[i].what = "unsupported"
              /\ logs[i].arg = JStr(<<source_format>>)
        /\ \A i \in 1..Len(logs) : logs[i].src = "parse"

C7_Witness == Done /\ source_format = "made_up_format" /\ GivenWords # <<>>

\* -------------------------------------------------------------------- C8
\* the returned word w is the word of entry e
IsWordOf(w, e) ==
    /\ Complete(e)
    /\ Item(e, TextKey(source_format)).t = "str"
    /\ Numeric(Item(e, StartKey(source_format)))
    /\ Numeric(Item(e, EndKey(source_format)))
    /\ w = WordOf(e)

\* the words are words of entries taken from es in increasing position
RECURSIVE InOrderOf(_, _)
InOrderOf(ws, es) ==
    IF ws = <<>> THEN TRUE
    ELSE IF es = <<>> THEN FALSE
    ELSE IF IsWordOf(Head(ws), Head(es)) THEN InOrderOf(Tail(ws), Tail(es))
    ELSE InOrderOf(ws, Tail(es))

\* C8: the returned words are a subsequence of the provider's entries in the
\* order given (group order, then word order, for nested sources); they are
\* not re-sorted, whatever their timestamps.
C8_OrderPreserved ==
    (HasResult /\ Known) => InOrderOf(Shape(result.words), GivenWords)

\* words came back in the order given although their times run backwards
C8_Witness ==
    /\ HasResult /\ Known
    /\ Len(result.words) >= 2
    /\ result.words[1].start_time > result.words[2].start_time
    /\ result.words[1].text # result.words[2].text

\* -------------------------------------------------------------------- C9
\* the alternative carries a list of words
AlternativeHasWords ==
    /\ IsDict(TheAlternative)
    /\ HasKey(TheAlternative, "words")
    /\ IsList(Item(TheAlternative, "words"))

\* the alternative carries a non-empty transcript
AlternativeHasTranscript ==
    /\ IsDict(TheAlternative)
    /\ HasKey(TheAlternative, "transcript")
    /\ Item(TheAlternative, "transcript").t = "str"
    /\ Item(TheAlternative, "transcript").v # <<>>

\* C9: parse as deepgram returns None when results.channels[0].alternatives[0]
\* is missing or short; when the alternative is there without a words list the
\* result has no words and the transcript as full_text if the transcript is
\* present and non-empty, and is None otherwise.
C9_DeepgramStructure ==
    (Done /\ source_format = "deepgram") =>
        /\ ~HasAlternative => result = None
        /\ (HasAlternative /\ ~AlternativeHasWords) =>
              IF AlternativeHasTranscript
              THEN /\ HasResult
                   /\ result.words = <<>>
                   /\ result.full_text = Item(TheAlternative, "transcript")
              ELSE result = None

\* a transcript without words was returned as a full-text-only transcription
C9_Witness ==
    /\ HasResult /\ source_format = "deepgram"
    /\ HasAlternative /\ ~AlternativeHasWords /\ AlternativeHasTranscript

\* ------------------------------------------------------------------- C10
\* the input has no tokens: the key is absent or holds the empty list
ZeroTokens == ~HasKey(data, "tokens") \/ Item(data, "tokens") = JList(<<>>)

\* C10: a Soniox input with zero tokens parses to a transcription with no
\* words and the empty full_text if its status is "completed", and to None
\* with any other or no status.
C10_SonioxEmptyCompleted ==
    (Done /\ source_format = "soniox" /\ ZeroTokens) =>
        IF HasKey(data, "status") /\ Item(data, "status") = JStr(CompletedChars)
        THEN /\ HasResult
             /\ result.words = <<>>
             /\ result.full_text = JStr(<<>>)
        ELSE result = None

\* a completed job without tokens gave the empty transcription
C10_Witness ==
    /\ HasResult /\ source_format = "soniox"
    /\ HasKey(data, "tokens") /\ ZeroTokens
    /\ HasKey(data, "text")

\* ------------------------------------------------------------------- C11
\* the token carries is_final: true
MarkedFinal(e) ==
    IsDict(e) /\ HasKey(e, "is_final") /\ Item(e, "is_final") = JBool(TRUE)

\* C11: a Soniox token with an explicit is_final: false is never among the
\* words, well-formed though its text and times are, and every well-formed
\* token with is_final: true or without the key is kept: the words of a
\* returned transcription are those of the well-formed tokens not marked
\* non-final, in order.
C11_NonFinalExcluded ==
    (HasResult /\ source_format = "soniox") =>
        /\ \A i \in 1..Len(GivenWords) :
              NonFinal(GivenWords[i]) =>
                  \A j \in 1..Len(result.words) :
                      result.words[j].text # Item(GivenWords[i], "text").v
        /\ Shape(result.words) = WellFormedWords(GivenWords)

\* three tokens, one final, one non-final, one unmarked, gave two words
C11_Witness ==
    /\ HasResult /\ source_format = "soniox"
    /\ Len(GivenWords) = 3
    /\ MarkedFinal(GivenWords[1]) /\ NonFinal(GivenWords[2])
    /\ WellFormed(GivenWords[3]) /\ ~HasKey(GivenWords[3], "is_final")
    /\ Len(result.words) = 2

\* ------------------------------------------------------------------- C12
\* C12: a transcription returned for a Soniox input that carries
\* soniox_metadata (the completed job without tokens included) has that
\* value, unchanged, as its metadata; a transcription of any other adapter has
\* none.
C12_MetadataPassThrough ==
    HasResult =>
        IF source_format = "soniox"
        THEN HasKey(data, "soniox_metadata") =>
                 result.soniox_metadata = Item(data, "soniox_metadata")
        ELSE result.soniox_metadata = None

\* ------------------------------------------------------------------- C13
\* the text the claim gives a Deepgram entry: punctuated_word if it is there,
\* else word
PunctuatedFirst(e) ==
    IF HasKey(e, "punctuated_word") THEN Item(e, "punctuated_word").v ELSE Item(e, "word").v

\* C13: the text of a Deepgram word is the entry's punctuated_word when the
\* entry carries one, and its word only when punctuated_word is absent.
\* (Stated for calls in which every entry gave a word, so that word i comes
\* from entry i.)
C13_PunctuatedPreferred ==
    (HasResult /\ source_format = "deepgram" /\ Len(result.words) = Len(GivenWords)) =>
        \A i \in 1..Len(GivenWords) : result.words[i].text = PunctuatedFirst(GivenWords[i])

\* ------------------------------------------------------------------- C14
\* the top-level words key provides entries: it holds a non-empty list
TopLevelWords ==
    /\ HasKey(data, "words") /\ IsList(Item(data, "words"))
    /\ Item(data, "words").v # <<>>

\* the entries nested under segments / utterances, flattened in order
NestedWords ==
    IF HasKey(data, NestedKey(source_format)) /\ IsList(Item(data, NestedKey(source_format)))
    THEN GroupedWords(Item(data, NestedKey(source_format)).v)
    ELSE <<>>

\* the word-level data of the input as the claim reads it: the top-level
\* list if it provides entries, else the nested ones
WordLevelData == IF TopLevelWords THEN Item(data, "words").v ELSE NestedWords

\* C14: for Whisper and AssemblyAI, when the top-level words provides no
\* entries (absent, no list, or the empty list) and the segments / utterances
\* hold well-formed entries, the result's words are those entries flattened
\* in order; the full-text-only result or None comes only when there is no
\* word-level data at all.  (Stated for inputs all of whose entries are
\* well-formed and whose full text, if any, is a string.)
C14_NestedSources ==
    (/\ Done /\ IsNestedFormat
     /\ FullTextIsText
     /\ WordLevelData # <<>>
     /\ \A i \in 1..Len(WordLevelData) : WellFormed(WordLevelData[i]))
    => (/\ HasResult
        /\ Shape(result.words) = WellFormedWords(WordLevelData))

\* ------------------------------------------------------------------- C15
\* the entry's speaker field as the claim reads it: speaker_id, else speaker,
\* for the two ElevenLabs adapters; speaker for the others; None if missing
SpeakerField(e) ==
    IF source_format \in {"elevenlabs", "elevenlabs_api"} /\ Has(e, "speaker_id")
    THEN Item(e, "speaker_id")
    ELSE IF Has(e, "speaker") THEN Item(e, "speaker")
    ELSE None

\* C15: in the adapters with a speaker field a word's speaker_id is absent
\* exactly when the entry's speaker is missing or null, and is the string form
\* of every other value, 0 included; Whisper words carry no speaker_id.
\* (Stated for calls in which every entry gave a word, so that word i comes
\* from entry i.)
C15_SpeakerIdentity ==
    (HasResult /\ Known /\ Len(result.words) = Len(GivenWords)) =>
        \A i \in 1..Len(GivenWords) :
            result.words[i].speaker_id =
                (IF source_format = "whisper" \/ IsNone(SpeakerField(GivenWords[i]))
                 THEN None
                 ELSE JStr(PyStr(SpeakerField(GivenWords[i]))))

\* ------------------------------------------------------------------- C16
\* the adapters whose providers give milliseconds
Milliseconds == source_format \in {"soniox", "assemblyai"}

\* the time the claim gives a word for the provider's value x
ClaimedTime(x) == IF Milliseconds THEN PyFloat(x).val \div 1000 ELSE PyFloat(x).val

\* C16: Soniox and AssemblyAI words have the provider's millisecond start and
\* end divided by 1000 (1500 gives 1.5, 2000 gives 2.0); the words of the
\* other four adapters have the provider's values unscaled.  (Stated for calls
\* in which every entry gave a word, so that word i comes from entry i.)
C16_UnitConversion ==
    (HasResult /\ Known /\ Len(result.words) = Len(GivenWords)) =>
        \A i \in 1..Len(GivenWords) :
            /\ result.words[i].start_time =
                   ClaimedTime(Item(GivenWords[i], StartKey(source_format)))
            /\ result.words[i].end_time =
                   ClaimedTime(Item(GivenWords[i], EndKey(source_format)))
            /\ (Milliseconds /\ Item(GivenWords[i], StartKey(source_format)) = JInt(1500)
                             /\ Item(GivenWords[i], EndKey(source_format)) = JInt(2000))
               => (/\ result.words[i].start_time = (3 * FloatUnit) \div 2
                   /\ result.words[i].end_time = 2 * FloatUnit)

\* a millisecond entry 1500..2000 came back as a word, beside another word
C16_Witness ==
    /\ HasResult /\ Milliseconds
    /\ Len(GivenWords) >= 2 /\ Len(result.words) = Len(GivenWords)
    /\ \E i \in 1..Len(GivenWords) :
          /\ Item(GivenWords[i], StartKey(source_format)) = JInt(1500)
          /\ Item(GivenWords[i], EndKey(source_format)) = JInt(2000)

\* ------------------------------------------------------------------- C17
\* the entry is typed as an audio event
AudioEvent(e) ==
    IsDict(e) /\ HasKey(e, "type") /\ Item(e, "type") = JStr(AudioEventChars)

\* the words, of ws, whose entry in es is no audio event (word i from entry i)
RECURSIVE SpokenWords(_, _)
SpokenWords(ws, es) ==
    IF ws = <<>> THEN <<>>
    ELSE (IF AudioEvent(Head(es)) THEN <<>> ELSE <<Head(ws)>>)
         \o SpokenWords(Tail(ws), Tail(es))

\* C17: ElevenLabs-API keeps every well-formed audio_event entry among the
\* words, and a derived full text is the space-join of the words not wholly
\* wrapped in parentheses, so that no audio-event entry contributes to it.
\* (Stated for calls in which every entry gave a word, so that word i comes
\* from entry i.)
C17_AudioEvents ==
    (/\ HasResult /\ source_format = "elevenlabs_api"
     /\ ~FullTextSupplied
     /\ Len(result.words) = Len(GivenWords))
    => (/\ Shape(result.words) = WellFormedWords(GivenWords)
        /\ result.full_text =
               JStr(SpaceJoined(SelectSeq(result.words, LAMBDA w : ~Wrapped(w.text))))
        /\ result.full_text =
               JStr(SpaceJoined(SelectSeq(SpokenWords(result.words, GivenWords),
                                          LAMBDA w : ~Wrapped(w.text)))))

\* ------------------------------------------------------------------- C18
\* the entry is skipped as malformed: a field is missing, or a time is not
\* numeric
SkippedMalformed(e) == ~NonFinal(e) /\ (MissingField(e) \/ CorruptTime(e))

\* a warning line about the entry is in the log
WarnedAbout(e) ==
    \E k \in 1..Len(logs) : logs[k].lvl = "warning" /\ logs[k].arg = e

\* C18: every entry an adapter skips as malformed (text, start or end
\* missing, or a non-numeric timestamp) has put a warning line in the log by
\* the time parse returns, in all six adapters.
C18_SkipWarned ==
    (HasResult /\ Known) =>
        \A i \in 1..Len(GivenWords) :
            SkippedMalformed(GivenWords[i]) => WarnedAbout(GivenWords[i])

\* ------------------------------------------------------------------- C19
\* the confidence the claim gives the word of a token: the token's value
\* when it reports one, else 1.0
ClaimedConfidence(e) ==
    IF Has(e, "confidence") THEN PyFloat(Item(e, "confidence")).val ELSE FloatUnit

\* C19: a Soniox word's confidence is the token's confidence when reported
\* and 1.0 when not, and every word of a returned transcription has a
\* confidence within [0, 1].  (The first part is stated for calls in which
\* every token gave a word, so that word i comes from token i.)
C19_Confidence ==
    (HasResult /\ Known) =>
        /\ (source_format = "soniox" /\ Len(result.words) = Len(GivenWords)) =>
              \A i \in 1..Len(GivenWords) :
                  result.words[i].confidence = ClaimedConfidence(GivenWords[i])
        /\ \A i \in 1..Len(result.words) :
              /\ 0 <= result.words[i].confidence
              /\ result.words[i].confidence <= FloatUnit

\* ------------------------------------------------------------------- C20
\* len(result.full_text or '') of a returned transcription
FullTextLength == IF result.full_text.t = "str" THEN Len(result.full_text.v) ELSE 0

\* the last line logged
LastLine == logs[Len(logs)]

\* the call ended with the success line, carrying the counts of the result
EndsWithSuccess ==
    /\ LastLine.src = "parse" /\ LastLine.what = "success"
    /\ HasResult
    /\ LastLine.arg = JList(<<JInt(Len(result.words)), JInt(FullTextLength)>>)

\* the call ended with a failure line: the "no valid result" line, or the
\* report of a caught exception (its message, then its trace)
EndsWithFailure ==
    /\ LastLine.src = "parse"
    /\ \/ LastLine.what = "failure"
       \/ /\ LastLine.what = "traceback"
          /\ Len(logs) >= 3
          /\ logs[Len(logs) - 1].src = "parse" /\ logs[Len(logs) - 1].what = "exception"

\* C20: in a parse call with a recognized tag the "begin" line is the first
\* line logged and comes before every adapter line; the call ends with the
\* success line, carrying len(words) and len(full_text) of the result, if and
\* only if the result is a transcription, and with a failure line if and only
\* if the result is None.
C20_LogOrder ==
    (Done /\ Known) =>
        /\ Len(logs) >= 2
        /\ logs[1] = LogLine("info", "parse", "begin", JStr(<<source_format>>))
        /\ \A k \in 2..Len(logs) : logs[k].what # "begin"
        /\ \A k \in 1..Len(logs) : logs[k].src # "parse" => (1 < k /\ k < Len(logs))
        /\ \A k \in 1..(Len(logs) - 1) : logs[k].what # "success"
        /\ HasResult <=> EndsWithSuccess
        /\ result = None <=> EndsWithFailure

\* a call that logged adapter lines between its begin and its success line
C20_Witness ==
    /\ HasResult /\ Known
    /\ Len(logs) >= 4
    /\ logs[2].src # "parse" /\ logs[2].lvl = "warning"
    /\ EndsWithSuccess
    /\ result.words # <<>>

\* what the call on the same data and format returns to a parser that logs
\* to the console
ConsoleCall == Emit(parse_call(data, source_format), Console)

\* C21: the result of parse depends only on data and source_format: whichever
\* log sink the parser was given and whatever the sink does with the lines,
\* the call returns what the call with the console fallback returns
C21_SinkIndependent ==
    Done => /\ raised = ConsoleCall.raised
            /\ result = ConsoleCall.result

\* the nested lists of the input hold at least one entry for extend() to copy
NestedEntries == IsNestedFormat /\ NestedWords # <<>>

\* C28: parse leaves its input unchanged: whichever adapter runs and whether
\* the call returns a transcription or null, data (its nested lists included)
\* is after the call what it was before it, and the one thing the parser
\* holds, its log sink, is not changed by the call
C28_InputUnchanged == [][data' = data /\ sink' = sink]_vars

\* a call returned with the entries of nested lists gathered into one list,
\* in data that also has a top-level `words` list
C28_Witness ==
    /\ Done
    /\ NestedEntries
    /\ NamesInputList(data)

\* the transcription returned has no word and an empty full text
EmptyTranscription ==
    /\ HasResult
    /\ result.words = <<>>
    /\ result.full_text = JStr(<<>>)

\* C29: a transcription with words == [] and full_text == "" is returned only
\* by the Soniox adapter for a completed job with zero tokens; wherever else
\* an adapter gets neither a valid word nor a full text, parse returns null
C29_EmptyOnlyFromSoniox ==
    (Done /\ EmptyTranscription) =>
        /\ source_format = "soniox"
        /\ ZeroTokens
        /\ HasKey(data, "status") /\ Item(data, "status") = JStr(CompletedChars)

\* the values an entry holds under its two text keys, nulls left out
AliasValues(e) ==
    {Item(e, k).v : k \in {k \in {TextKey(source_format), AliasKey(source_format)} :
                              HasKey(e, k) /\ ~IsNone(Item(e, k))}}

\* the speaker the entry names: speaker_id, else speaker, a null passed over
AliasSpeaker(e) ==
    IF HasKey(e, "speaker_id") /\ ~IsNone(Item(e, "speaker_id")) THEN Item(e, "speaker_id")
    ELSE IF HasKey(e, "speaker") THEN Item(e, "speaker")
    ELSE None

\* C23: in the ElevenLabs (web and API), Whisper and Deepgram adapters a
\* complete entry with its text under either of the two alias keys is kept
\* with that text, also when the preferred key holds null and the other key
\* the text; the ElevenLabs adapters read the speaker the same way from
\* speaker_id, else speaker
C23_AliasFallback ==
    (Done /\ source_format \in AliasFormats) =>
        /\ HasResult
        /\ Len(result.words) = Len(GivenWords)
        /\ \A i \in DOMAIN GivenWords :
              /\ result.words[i].text \in AliasValues(GivenWords[i])
              /\ source_format \in {"elevenlabs", "elevenlabs_api"} =>
                    result.words[i].speaker_id = AliasSpeaker(GivenWords[i])

\* the object without the keys outside `own`
Only(obj, own) == JObj(SelectSeq(obj.v, LAMBDA kv : kv[1] \in own))

\* the holder of the word list with every entry cut down to the provider's
\* own keys
OwnEntries(holder) ==
    JObj([i \in DOMAIN holder.v |->
            IF holder.v[i][1] = WordsKey(source_format) /\ IsList(holder.v[i][2])
            THEN <<holder.v[i][1],
                   JList([j \in DOMAIN holder.v[i][2].v |->
                            IF IsDict(holder.v[i][2].v[j])
                            THEN Only(holder.v[i][2].v[j], OwnEntryKeys(source_format))
                            ELSE holder.v[i][2].v[j]])>>
            ELSE holder.v[i]])

\* the input cut down to the provider's own shape, at the top level and in
\* every word entry
OwnShape ==
    IF source_format = "deepgram" THEN Wrap(OwnEntries(TheAlternative))
    ELSE OwnEntries(Only(data, OwnTopKeys(source_format)))

\* C22: fields that are not part of the provider's shape, at the top level of
\* the input or inside a word / token entry, never change the result of
\* parse: the call returns what it returns for the input without them
C22_ForeignFieldsIgnored ==
    (Done /\ Known /\ HasHolder) =>
        result = parse_call(OwnShape, source_format).result

\* a call on an input with foreign fields at the top level and in an entry
\* returned a transcription with words
C22_Witness ==
    /\ Done /\ Known /\ HasHolder
    /\ HasResult /\ result.words # <<>>
    /\ HasKey(data, "transcript") /\ HasKey(data, "status")
    /\ \E i \in DOMAIN GivenWords : HasKey(GivenWords[i], "start_ms") /\ HasKey(GivenWords[i], "end")

\* ------------------------------------------------------------------- C24
\* C24: stop_current_task stops the task: called while
\* poll_transcription_result is polling, it makes the loop return; the loop
\* does not go on polling on the session put in place of the closed one, so
\* no status request is ever out on a session that a stop created
C24_StopEndsPolling == ~(step = "wait" /\ used > 0)

\* ------------------------------------------------------------------- C25
\* C25: poll_transcription_result always terminates, the clock advancing in
\* every round of the loop: once entered it returns, whatever the status
\* requests come to, and no status request is made in a round that starts
\* after timeout_seconds have elapsed
C25_BoundedPolling ==
    /\ [](step = "get" => clock - start_time <= timeout_seconds)
    /\ (step = "poll") ~> (step = "polled")

\* polling ran into the long timeout with the interval at its largest and
\* the job still queued
C25_Witness ==
    /\ step = "polled"
    /\ timeout_seconds = LongTimeout
    /\ elapsed_time > timeout_seconds
    /\ poll_interval = 10
    /\ last.kind = "response" /\ last.code = 200

\* ------------------------------------------------------------------- C26
\* the call of poll_transcription_result has returned
PollReturned == step \in {"polled", "done"} /\ last # NoResponse

\* the latest status response says the job is completed, failed, or neither
StatusIs(chars) ==
    /\ last.kind = "response" /\ last.code = 200 /\ IsDict(last.body)
    /\ HasKey(last.body, "status") /\ Item(last.body, "status") = JStr(chars)
SaysCompleted == StatusIs(CompletedChars)
SaysFailed == StatusIs(FailedChars) \/ StatusIs(ErrorChars)
Refused == last.kind = "response" /\ last.code \in {401, 403, 404}

\* the transcript request brought HTTP 200 with content that is not empty
TranscriptFetched ==
    /\ fetched.kind = "response" /\ fetched.code = 200
    /\ IsDict(fetched.body) /\ fetched.body.v # <<>>

\* any other HTTP code, a network error, or a 200 response whose status is
\* queued, processing, transcribing, unknown or missing
AskAgain ==
    \/ last.kind = "RequestException"
    \/ last.kind = "response" /\ last.code # 200 /\ ~Refused
    \/ /\ last.kind = "response" /\ last.code = 200 /\ IsDict(last.body)
       /\ ~SaysCompleted /\ ~SaysFailed

KeySet(d) == {d.v[i][1] : i \in DOMAIN d.v}

\* res holds the fields of `under` overlaid with those of `over`
Overlaid(res, under, over) ==
    /\ IsDict(res)
    /\ KeySet(res) = KeySet(under) \cup KeySet(over)
    /\ \A k \in KeySet(res) :
          Item(res, k) = IF HasKey(over, k) THEN Item(over, k) ELSE Item(under, k)

\* a result is returned only for a completed job whose transcript was
\* fetched, and it is the status fields overlaid with the transcript's
ResultOnlyWhenFetched ==
    (PollReturned /\ poll_result # None) =>
        /\ SaysCompleted
        /\ TranscriptFetched
        /\ Overlaid(poll_result, last.body, fetched.body)

\* after failed / error, 401 / 403 / 404 or a failed transcript fetch the
\* call has returned null, that status request being its last
NullAfterFailure ==
    /\ (SaysFailed \/ Refused) => (PollReturned /\ poll_result = None)
    /\ (SaysCompleted /\ PollReturned /\ ~TranscriptFetched) => poll_result = None

\* C26 as claimed: a result only after completed and a fetched transcript;
\* null and no further request after failed / error, 401 / 403 / 404 or a
\* failed fetch; after anything else another status request, always
C26_AlwaysAsksAgain ==
    /\ ResultOnlyWhenFetched
    /\ NullAfterFailure
    /\ AskAgain => ~PollReturned

\* C26: a result only after completed and a fetched transcript; null and no
\* further request after failed / error, 401 / 403 / 404 or a failed fetch;
\* after anything else another status request, unless timeout_seconds have
\* elapsed when the next round starts: then the call returns null
C26_PollingProtocol ==
    /\ ResultOnlyWhenFetched
    /\ NullAfterFailure
    /\ (AskAgain /\ PollReturned) =>
          (elapsed_time > timeout_seconds /\ poll_result = None)

\* after a wait on a processing job the call returned the status fields
\* with a transcript field laid over one of them
C26_Witness ==
    /\ PollReturned /\ poll_result # None
    /\ HasKey(fetched.body, "status")
    /\ elapsed_time > 0

\* ------------------------------------------------------------------- C30
IsPrefix(xs, ys) == Len(xs) <= Len(ys) /\ xs = SubSeq(ys, 1, Len(xs))
Called(name) == \E i \in DOMAIN calls : calls[i] = name

\* C30: transcribe_audio_file calls upload, create and poll in that order
\* and stops at the first that fails: create is called only after upload
\* returned a file id, poll only after create returned a transcription id,
\* and a result that is not null carries soniox_metadata with that file id
\* and that transcription id
C30_UploadCreatePoll ==
    /\ IsPrefix(calls, <<"upload_audio_file", "create_transcription",
                         "poll_transcription_result">>)
    /\ Called("create_transcription") => Truthy(file_id)
    /\ Called("poll_transcription_result") => Truthy(transcription_id)
    /\ (step = "done" /\ Len(calls) < 3) => out = None
    /\ out # None =>
          /\ HasKey(out, "soniox_metadata")
          /\ IsDict(Item(out, "soniox_metadata"))
          /\ Get(Item(out, "soniox_metadata"), "file_id", None) = file_id
          /\ Get(Item(out, "soniox_metadata"), "transcription_id", None) = transcription_id
          /\ file_id = Item(uploaded, "id")
          /\ transcription_id = Item(created, "id")

\* a call returned a result, the metadata put in place of a field of that
\* name in the transcript
C30_Witness ==
    /\ step = "done" /\ out # None
    /\ IsDict(fetched.body) /\ HasKey(fetched.body, "soniox_metadata")

\* ------------------------------------------------------------------- C27
\* C27: cooperative cancellation in transcribe_audio, for a client whose
\* forwarder leads to its worker: with is_running false when the call starts
\* it returns None and no HTTP request is sent; with is_running false when
\* the response has arrived it returns None; a response is returned only if
\* the flag was true at both checks
C27_CooperativeCancellation ==
    has_parent =>
        /\ (Len(flags) >= 1 /\ ~flags[1]) =>
              (el_step = "returned" /\ sent = 0 /\ el_out = None)
        /\ (Len(flags) = 2 /\ ~flags[2]) => (el_step = "returned" /\ el_out = None)
        /\ el_out # None => (Len(flags) = 2 /\ flags[1] /\ flags[2])

\* the worker was stopped while the request was out: a good response came
\* back and was not returned
C27_Witness ==
    /\ has_parent /\ el_step = "returned"
    /\ flags = <<TRUE, FALSE>>
    /\ sent = 1
    /\ el_response.kind = "response" /\ el_response.code = 200
    /\ IsDict(el_response.body) /\ HasKey(el_response.body, "words")

====
